---- MODULE Spec2Model ----
(***************************************************************************)
(* Verification model of the ETL pipeline: the extractor of                *)
(* src/src/extract.py (change detection, staging upsert, tracking ledger)  *)
(* and the normalizer of src/src/transform.py (the DataTransformer that    *)
(* src/main.py imports).                                                   *)
(*                                                                         *)
(* Text values are sequences of one-character strings, so that strip,      *)
(* title-casing, digit extraction and int() are computed character by      *)
(* character as the Python code computes them.  SQL NULL / Python None is  *)
(* the value None.  Only the columns the checked properties read are kept  *)
(* in a row: the primary key, the foreign key, and one cleaned text column *)
(* per entity; the remaining columns go through the same cleaning calls.   *)
(***************************************************************************)
EXTENDS Integers, Sequences, FiniteSets, TLC

\* ------------------------------------------------------------------ bounds
\* rows in one source file
MaxRows == 2
\* external modifications of source files in one behaviour
MaxEdits == 2
\* rows per staging write batch (BATCH_SIZE of the configuration, scaled down
\* so that one file spans several batches)
BATCH_SIZE == 1
\* staging upserts applied between normalizer runs in one behaviour
MaxStage == 3
MaxSortRows == 3
\* staged loans or transactions rows cleaned in one call
MaxStagedRows == 2
MaxClock == 4
MaxT == 3
MaxLoadRuns == 3
\* rows the extraction phase of a run newly staged
MaxExtracted == 1
load_batch_size == 2
MaxJobs == 3
\* CompleteETLScheduler(interval_minutes = 1), the default of --interval
interval_minutes == 1
\* normalizer runs in one behaviour
MaxRuns == 3
\* rows per fetch / insert batch of the normalizer (self.batch_size, scaled)
batch_size == 2

\* ------------------------------------------------------------- text values
None == <<"<None>">>

Digits == <<"0", "1", "2", "3", "4", "5", "6", "7", "8", "9">>
LowerLetters == <<"a", "b", "c", "d", "e", "f", "g", "h", "i", "j", "k", "l", "m",
                  "n", "o", "p", "q", "r", "s", "t", "u", "v", "w", "x", "y", "z">>
UpperLetters == <<"A", "B", "C", "D", "E", "F", "G", "H", "I", "J", "K", "L", "M",
                  "N", "O", "P", "Q", "R", "S", "T", "U", "V", "W", "X", "Y", "Z">>

Range(s) == {s[i] : i \in DOMAIN s}

IsDigit(c) == c \in Range(Digits)
IsLower(c) == c \in Range(LowerLetters)
IsUpper(c) == c \in Range(UpperLetters)
IsCased(c) == IsLower(c) \/ IsUpper(c)

IndexIn(c, s) == CHOOSE i \in DOMAIN s : s[i] = c
DigitVal(c) == IndexIn(c, Digits) - 1
ToUpperChar(c) == IF IsLower(c) THEN UpperLetters[IndexIn(c, LowerLetters)] ELSE c
ToLowerChar(c) == IF IsUpper(c) THEN LowerLetters[IndexIn(c, UpperLetters)] ELSE c

\* str.upper(), str.lower()
Upper(s) == [i \in DOMAIN s |-> ToUpperChar(s[i])]
Lower(s) == [i \in DOMAIN s |-> ToLowerChar(s[i])]

\* str.title(): a letter that follows a cased letter is lowered, any other
\* letter is raised
Title(s) ==
    [i \in DOMAIN s |->
        IF i > 1 /\ IsCased(s[i - 1]) THEN ToLowerChar(s[i]) ELSE ToUpperChar(s[i])]

RECURSIVE LStrip(_)
LStrip(s) == IF s # <<>> /\ Head(s) = " " THEN LStrip(Tail(s)) ELSE s

RECURSIVE RStrip(_)
RStrip(s) ==
    IF s # <<>> /\ s[Len(s)] = " " THEN RStrip(SubSeq(s, 1, Len(s) - 1)) ELSE s

\* str.strip()
Strip(s) == RStrip(LStrip(s))

\* collation order of characters used by ORDER BY: space, digits, letters
CharRank(c) ==
    IF c = " " THEN 0
    ELSE IF IsDigit(c) THEN 1 + DigitVal(c)
    ELSE IF IsCased(c) THEN 10 + IndexIn(ToLowerChar(c), LowerLetters)
    ELSE 40

RECURSIVE StrLess(_, _)
StrLess(a, b) ==
    IF b = <<>> THEN FALSE
    ELSE IF a = <<>> THEN TRUE
    ELSE IF CharRank(Head(a)) # CharRank(Head(b))
         THEN CharRank(Head(a)) < CharRank(Head(b))
    ELSE StrLess(Tail(a), Tail(b))

\* int(str): surrounding blanks are ignored, the rest must be decimal digits
RECURSIVE DigitsValue(_, _)
DigitsValue(s, acc) ==
    IF s = <<>> THEN acc ELSE DigitsValue(Tail(s), 10 * acc + DigitVal(Head(s)))

IsIntText(v) ==
    /\ v # None
    /\ Strip(v) # <<>>
    /\ \A i \in DOMAIN Strip(v) : IsDigit(Strip(v)[i])

IntOf(v) == DigitsValue(Strip(v), 0)

\* ------------------------------------------------------------ the schemas
Tables == {"branches", "customers", "loans", "transactions"}

TABLE_SCHEMAS ==
    [branches     |-> [primary_key |-> "branch_id",      columns |-> <<"branch_id", "city">>],
     customers    |-> [primary_key |-> "customer_id",    columns |-> <<"customer_id", "first_name">>],
     loans        |-> [primary_key |-> "loan_id",        columns |-> <<"loan_id", "customer_id", "loan_type">>],
     transactions |-> [primary_key |-> "transaction_id", columns |-> <<"transaction_id", "customer_id", "transaction_type">>]]

PK(t) == TABLE_SCHEMAS[t].primary_key

\* ------------------------------------------------------------- sequences
RECURSIVE SeqFilterKeys(_, _, _)
\* the rows of rows whose column col lies in keep, in order
SeqFilterKeys(rows, col, keep) ==
    IF rows = <<>> THEN <<>>
    ELSE IF Head(rows)[col] \in keep
         THEN <<Head(rows)>> \o SeqFilterKeys(Tail(rows), col, keep)
    ELSE SeqFilterKeys(Tail(rows), col, keep)

KeysOf(rows, col) == {rows[i][col] : i \in DOMAIN rows}

\* the permutations of 1..n
Perms(n) == {p \in [1..n -> 1..n] : \A i, j \in 1..n : i # j => p[i] # p[j]}

\* ------------------------------------------------------------ source files
B1 == <<"B", "1">>
B2 == <<"B", "2">>
SB1 == <<" ", "B", "1">>
Pune == <<"p", "u", "n", "e">>
Goa == <<"g", "o", "a">>
Nan == <<"n", "a", "n">>

FileNames == {"branches.csv", "branches_2.csv"}
\* glob("<table>*.csv"): both files belong to the branches entity
TableOf(f) == "branches"
\* sorted(csv_files)
SortedFiles == <<"branches.csv", "branches_2.csv">>

\* the rows a source file may hold, as read_csv(dtype=str, keep_default_na=False)
\* returns them: every cell is text, an empty cell is the empty text
FileRowDomain ==
    { [branch_id |-> B1, city |-> Pune], [branch_id |-> B1, city |-> Goa],
      [branch_id |-> B2, city |-> Nan], [branch_id |-> <<>>, city |-> Pune] }

\* a file whose header names a column the schema of the entity does not have
BadColumns == << [branch_id |-> B1, town |-> Pune] >>

Contents == UNION {[1..n -> FileRowDomain] : n \in 0..MaxRows} \cup {BadColumns}

\* ------------------------------------------------------------------ state
VARIABLES
    files,          \* file name -> the data rows the file holds now
    etl_file_tracker, \* the tracking ledger: file name -> [file_hash, record_count]
    staging,        \* table -> rows of the staging store, in staging_row_id order
    xpc,            \* position of the extraction pass
    todo,           \* files of the pass not yet handed to load_csv_to_staging
    csv_file,       \* the file load_csv_to_staging is working on
    batch_data,     \* rows of the file still to be written, in write order
    ret,            \* (total_rows, new_rows, updated_rows) of the file in work
    result,         \* what the last load_csv_to_staging call returned, for which file,
                    \* and whether the file was skipped or processed
    totals,         \* running sums of extract_all_csv_files
    results,        \* what the last extract_all_csv_files call returned
    edits,          \* external modifications so far
    \* history variables of the extraction properties
    lastUpsert,     \* table -> key -> the row of the last committed upsert of the key
    parsedContent,  \* the rows read by the call in work
    unchangedInCall,\* the file in work was not modified since the call began
    lastProcessed,  \* file name -> the rows read by the last call that went on to the ledger update
    cleanPasses,    \* file name -> calls begun and returned, without read error, since its
                    \* last modification (capped at 2)
    readError,      \* reading the file in work raised
    batchFailed     \* some batch of some call was rolled back

extractVars == <<files, etl_file_tracker, xpc, todo, csv_file, batch_data, ret, result,
                 totals, results, edits, parsedContent, unchangedInCall,
                 lastProcessed, cleanPasses, readError, batchFailed>>


VARIABLES
    transformed,    \* table -> rows of the transformed store, in display_id order
    tables_exist,   \* the transformed tables have been created
    auto_increment, \* table -> the next display_id the store hands out
    stats,          \* self.stats of the DataTransformer of the run in work
    tpc,            \* position of the normalizer run
    outcome,        \* how the last normalizer run ended
    staged,         \* staging writes so far in the normalizer specification
    runs,           \* normalizer runs so far
    \* history variables of the normalizer properties
    overwritten,    \* table -> keys whose upsert replaced a row holding other values
    riDropped,      \* table -> rows the run in work removed by the foreign-key filter
    runFaulty,      \* a store fault was injected into the run in work
    cleanRuns,      \* runs ended without injected fault since the last staging write (capped at 2)
    insertions,     \* table -> the display_ids of the committed inserts, in insert order
    conflict        \* an INSERT of the run in work met a duplicate key

normVars == <<transformed, tables_exist, auto_increment, stats, tpc, outcome, staged, runs,
              riDropped, runFaulty, cleanRuns, insertions, conflict>>

\* two source files of one entity holding the same rows in different order,
\* and what a call of _process_small_file writes for each of them
VARIABLES
    spc,            \* "idle" | "read" | "done"
    dfA,            \* the rows of the first file, in file order
    dfB,            \* the rows of the second file, in file order
    writtenA,       \* the rows the call on the first file hands to the upsert, in write order
    writtenB,       \* the same for the second file
    sorted          \* the files whose rows have been sorted and handed on

sortVars == <<spc, dfA, dfB, writtenA, writtenB, sorted>>

\* main.py: one process started in full or in schedule mode
VARIABLES
    mode,           \* "none" | "full" | "schedule"
    ppc,            \* "none" | the stage in work | "loop" (the scheduler's while loop) | "exited"
    stageLog,       \* the stage events of the run in work or last ended: <<"start" | "end" | "raise" | "abort", stage>>
    exitCode,       \* the status sys.exit was called with, -1 while the process lives
    running,        \* CompleteETLScheduler.running
    total_runs,     \* CompleteETLScheduler.total_runs
    successful_runs,\* CompleteETLScheduler.successful_runs
    jobResult,      \* what the last run_complete_etl_job returned: "none" | "true" | "false"
    viaSchedule,    \* the run in work was started by schedule.run_pending
    clock,          \* the time, in minutes
    next_run,       \* the time the timed job is due (schedule's Job.next_run)
    dueDuringRun,   \* the timed job became due while a run was in work and has not run since
    firedLate,      \* the run in work or last ended was started for a trigger that became due during a run
    sigIn,          \* the stage that was in work when SIGINT/SIGTERM arrived, "none" if none did
    recorded,       \* the stages whose counts the run's SimpleQualityTracker holds
    reported        \* the run's tracker has emitted its quality report

pipeVars == <<mode, ppc, stageLog, exitCode, running, total_runs, successful_runs, jobResult,
              viaSchedule, clock, next_run, dueDuringRun, firedLate, sigIn, recorded, reported>>

\* the load phase: transformed store, production store and the loader's marks
VARIABLES
    tstore,         \* entity -> number of rows of the transformed table (surrogate keys 1..n)
    production,     \* entity -> the surrogate keys of the rows appended to production, in order
    hwm,            \* entity -> the persisted high-water mark: the last surrogate key loaded
    lpc,            \* "idle" | "load" | "verify"
    lent,           \* the position in LoadEntities of the entity in work
    appended,       \* entity -> rows the run in work or last ended appended
    load_results,   \* entity -> the success flag load_all_entities_incremental returns
    counts,         \* entity -> what verify_counts returned last
    all_synced,     \* run_load_phase's all_synced of the last run
    loadRuns,       \* load phases started
    quietRuns,      \* load phases ended without failure since the last new transformed row (capped at 2)
    failedBefore,   \* entity -> a batch of the entity failed in some run
    fresh,          \* entity -> the entity's load ended without failure and no row was transformed since
    extracted,      \* SimpleQualityTracker.extracted of the run
    loaded,         \* SimpleQualityTracker.loaded of the run
    summary         \* the last line of the run's quality summary

loadVars == <<tstore, production, hwm, lpc, lent, appended, load_results, counts, all_synced,
              loadRuns, quietRuns, failedBefore, fresh, extracted, loaded, summary>>

\* the date and age rules of the normalizer applied to one value
VARIABLES
    dpc,            \* "idle" | "input" | "parsed" | "aged"
    today,          \* date.today() of the call
    dval,           \* the text handed to safe_date
    dres,           \* what transform.py's safe_date returned
    dresV,          \* what load.py's safe_date returned
    age,            \* what transform.py's calc_age returned for dres
    ageV            \* what load.py's calc_age returned for dresV

dateVars == <<dpc, today, dval, dres, dresV, age, ageV>>

\* _process_dataframe_raw applied to one row
VARIABLES
    cpc,            \* "idle" | "read" | "done"
    cin,            \* the row as read_csv returned it
    cout            \* the row as _process_dataframe_raw hands it to the upsert

cellVars == <<cpc, cin, cout>>

\* the cleaning of the staged loans or transactions by both normalizers
VARIABLES
    rpc,            \* "idle" | "staged" | "done"
    rtable,         \* "loans" | "transactions"
    rin,            \* the staged rows, in key order
    rout,           \* the rows transform.py's function inserts
    raborted,       \* transform.py's function raised
    routV           \* the rows load.py's function inserts

rowVars == <<rpc, rtable, rin, rout, raborted, routV>>

pureVars == <<dateVars, cellVars, rowVars>>

otherVars == <<sortVars, pipeVars, loadVars, pureVars>>

\* ----------------------------------------------------------- extract.py
\* hashlib.md5 over the file bytes: a fingerprint, distinct for distinct contents
_calculate_file_hash(content) == <<"md5", content>>

\* _is_file_processed: a ledger entry exists and its hash is the hash of the
\* file as it is now
\* (faulty variant: the ledger is never consulted)
_is_file_processed_never(f) == FALSE
_is_file_processed(f) ==
    /\ f \in DOMAIN etl_file_tracker
    /\ etl_file_tracker[f].file_hash = _calculate_file_hash(files[f])

\* _extract_numeric_id: the digits of the key, concatenated, as an integer
RECURSIVE OnlyDigits(_)
OnlyDigits(s) ==
    IF s = <<>> THEN <<>>
    ELSE IF IsDigit(Head(s)) THEN <<Head(s)>> \o OnlyDigits(Tail(s))
    ELSE OnlyDigits(Tail(s))

_extract_numeric_id(id_value) ==
    IF id_value = None THEN 0
    ELSE IF OnlyDigits(id_value) # <<>> THEN DigitsValue(OnlyDigits(id_value), 0)
    ELSE 0

\* the texts _process_dataframe_raw replaces by None
RawNullTokens == { <<"n", "a", "n">>, <<"N", "o", "n", "e">>, <<"N", "a", "T">>,
                   <<"<", "N", "A", ">">>, <<>> }

RawValue(v) == IF v \in RawNullTokens THEN None ELSE v

\* _process_dataframe_raw: the orders sort_values may leave the rows in (the
\* default sort kind is not stable, so rows with equal sort keys come in any
\* order), every cell then mapped through RawValue
SortOrders(df, pk) ==
    { p \in Perms(Len(df)) :
        \A i, j \in 1..Len(df) :
            i < j => _extract_numeric_id(df[p[i]][pk]) <= _extract_numeric_id(df[p[j]][pk]) }

_process_dataframe_raw(df, p) ==
    [i \in 1..Len(df) |-> [c \in DOMAIN df[p[i]] |-> RawValue(df[p[i]][c])]]

\* set(df.columns) != set(expected_columns), for a frame with rows
\* (faulty variant: the columns are never compared)
column_mismatch_never(df, expected_columns) == FALSE
column_mismatch(df, expected_columns) ==
    DOMAIN df[1] # {expected_columns[i] : i \in DOMAIN expected_columns}

\* df[df[pk].notna()], df[df[pk] != ''], drop_duplicates(subset=[pk], keep='last')
RECURSIVE SelectIdx(_, _, _)
\* the rows of df at the positions in keep, from position i on, in order
SelectIdx(df, i, keep) ==
    IF i > Len(df) THEN <<>>
    ELSE IF i \in keep THEN <<df[i]>> \o SelectIdx(df, i + 1, keep)
    ELSE SelectIdx(df, i + 1, keep)

ValidKeyed(df, pk) ==
    SelectIdx(df, 1, {i \in DOMAIN df : df[i][pk] # None /\ df[i][pk] # <<>>})

DropDuplicatesLast(df, pk) ==
    SelectIdx(df, 1, {i \in DOMAIN df : \A j \in (i + 1)..Len(df) : df[j][pk] # df[i][pk]})

DropDuplicatesFirst(df, pk) ==
    SelectIdx(df, 1, {i \in DOMAIN df : \A j \in 1..(i - 1) : df[j][pk] # df[i][pk]})

\* _get_existing_primary_keys
_get_existing_primary_keys(t) == KeysOf(staging[t], PK(t))

\* INSERT ... ON DUPLICATE KEY UPDATE col = VALUES(col) for every column, on
\* a table whose primary-key column is UNIQUE: a row with the key is
\* overwritten in place, otherwise the row is appended
\* (faulty variant: a plain INSERT on a table without the key constraint)
UpsertRowAppend(rows, pk, r) == Append(rows, r)
UpsertRow(rows, pk, r) ==
    IF \E i \in DOMAIN rows : rows[i][pk] = r[pk]
    THEN [i \in DOMAIN rows |-> IF rows[i][pk] = r[pk] THEN r ELSE rows[i]]
    ELSE Append(rows, r)

RECURSIVE UpsertRows(_, _, _)
UpsertRows(rows, pk, batch) ==
    IF batch = <<>> THEN rows
    ELSE UpsertRows(UpsertRow(rows, pk, Head(batch)), pk, Tail(batch))

\* the keys of batch whose upsert replaces a row that holds other values
RECURSIVE NoteOverwrites(_, _, _, _)
NoteOverwrites(o, rows, pk, batch) ==
    IF batch = <<>> THEN o
    ELSE NoteOverwrites(
             IF \E i \in DOMAIN rows : rows[i][pk] = Head(batch)[pk] /\ rows[i] # Head(batch)
             THEN o \cup {Head(batch)[pk]} ELSE o,
             UpsertRow(rows, pk, Head(batch)), pk, Tail(batch))

\* the history of committed upserts: key -> last row written for it
RECURSIVE NoteUpserts(_, _, _)
NoteUpserts(h, pk, batch) ==
    IF batch = <<>> THEN h
    ELSE NoteUpserts((Head(batch)[pk] :> Head(batch)) @@ h, pk, Tail(batch))

FirstN(s, n) == SubSeq(s, 1, IF Len(s) < n THEN Len(s) ELSE n)
DropN(s, n) == SubSeq(s, (IF Len(s) < n THEN Len(s) ELSE n) + 1, Len(s))

Add3(a, b) == <<a[1] + b[1], a[2] + b[2], a[3] + b[3]>>

Min(a, b) == IF a < b THEN a ELSE b

\* ------------------------------------------- extract.py: the extraction pass
\* extract_all_csv_files, entry: the files of the entity in sorted order
ExtractAllStart ==
    /\ xpc = "idle"
    /\ xpc' = "file"
    /\ todo' = SortedFiles
    /\ totals' = <<0, 0, 0>>
    /\ UNCHANGED <<files, etl_file_tracker, staging, csv_file, batch_data, ret, result,
                   results, edits, lastUpsert, parsedContent,
                   unchangedInCall, lastProcessed, cleanPasses>>
    /\ UNCHANGED <<normVars, otherVars, overwritten, readError, batchFailed>>

\* load_csv_to_staging up to the change check: the row count of the file is
\* taken first; a file whose ledger hash matches is skipped and only its row
\* count is returned
LoadCsvToStaging ==
    /\ xpc = "file"
    /\ todo # <<>>
    /\ LET f == Head(todo)
           csv_row_count == Len(files[f])
       IN  IF _is_file_processed(f)
           THEN /\ result' = [file |-> f, rows |-> <<csv_row_count, 0, 0>>, how |-> "skipped"]
                /\ totals' = Add3(totals, <<csv_row_count, 0, 0>>)
                /\ todo' = Tail(todo)
                /\ cleanPasses' = [cleanPasses EXCEPT ![f] = Min(2, @ + 1)]
                /\ UNCHANGED <<xpc, csv_file, unchangedInCall>>
           ELSE /\ xpc' = "process"
                /\ csv_file' = f
                /\ unchangedInCall' = TRUE
                /\ UNCHANGED <<result, totals, todo, cleanPasses>>
    /\ UNCHANGED <<files, etl_file_tracker, staging, batch_data, ret, results, edits,
                   lastUpsert, parsedContent, lastProcessed>>
    /\ UNCHANGED <<normVars, otherVars, overwritten, readError, batchFailed>>

\* _process_small_file up to the write loop: read the file, compare its
\* columns with the schema, sort, map the null texts, drop rows without key,
\* collapse duplicate keys, count new and updated keys against the keys
\* staged so far.  When read_csv raises, the except clause logs the error and
\* the function returns (0, 0, 0); so it does, after logging the mismatch,
\* for a file whose columns are not those of the schema.
ProcessSmallFile ==
    /\ xpc = "process"
    /\ \E read_ok \in BOOLEAN :
       LET t == TableOf(csv_file)
           pk == PK(t)
           content == files[csv_file]
           total_rows == Len(content)
       IN  /\ readError' = ~read_ok
           /\ IF ~read_ok
              THEN /\ ret' = <<0, 0, 0>>
                   /\ batch_data' = <<>>
                   /\ xpc' = "mark"
                   /\ UNCHANGED parsedContent
              ELSE IF content = <<>>
              THEN /\ ret' = <<0, 0, 0>>
                   /\ batch_data' = <<>>
                   /\ xpc' = "mark"
                   /\ parsedContent' = content
              ELSE IF column_mismatch(content, TABLE_SCHEMAS[t].columns)
              THEN /\ ret' = <<0, 0, 0>>
                   /\ batch_data' = <<>>
                   /\ xpc' = "mark"
                   /\ parsedContent' = content
              ELSE \E p \in SortOrders(content, pk) :
                     LET df == DropDuplicatesLast(
                                   ValidKeyed(_process_dataframe_raw(content, p), pk), pk)
                         existing_keys == _get_existing_primary_keys(t)
                         csv_keys == KeysOf(df, pk)
                         new_count == Cardinality(csv_keys \ existing_keys)
                         update_count == Cardinality(csv_keys \cap existing_keys)
                     IN  /\ parsedContent' = content
                         /\ IF df = <<>>
                            THEN /\ ret' = <<total_rows, 0, 0>>
                                 /\ batch_data' = <<>>
                                 /\ xpc' = "mark"
                            ELSE /\ ret' = <<total_rows, new_count, update_count>>
                                 /\ batch_data' = df
                                 /\ xpc' = "upsert"
    /\ UNCHANGED <<files, etl_file_tracker, staging, todo, csv_file, result, totals,
                   results, edits, lastUpsert, unchangedInCall, lastProcessed,
                   cleanPasses>>
    /\ UNCHANGED <<normVars, otherVars, overwritten, batchFailed>>

\* one turn of the write loop: _upsert_batch_data on the next BATCH_SIZE rows;
\* a failing batch is rolled back, its return value 0 is ignored and the loop
\* goes on
UpsertBatch ==
    /\ xpc = "upsert"
    /\ \E ok \in BOOLEAN :
         LET t == TableOf(csv_file)
             sub_batch == FirstN(batch_data, BATCH_SIZE)
         IN  /\ staging' = IF ok
                           THEN [staging EXCEPT ![t] = UpsertRows(@, PK(t), sub_batch)]
                           ELSE staging
             /\ lastUpsert' = IF ok
                              THEN [lastUpsert EXCEPT ![t] = NoteUpserts(@, PK(t), sub_batch)]
                              ELSE lastUpsert
             /\ overwritten' = IF ok
                               THEN [overwritten EXCEPT
                                       ![t] = NoteOverwrites(@, staging[t], PK(t), sub_batch)]
                               ELSE overwritten
             /\ batchFailed' = (batchFailed \/ ~ok)
    /\ batch_data' = DropN(batch_data, BATCH_SIZE)
    /\ xpc' = IF batch_data' = <<>> THEN "mark" ELSE "upsert"
    /\ UNCHANGED <<files, etl_file_tracker, todo, csv_file, ret, result, totals, results,
                   edits, parsedContent, unchangedInCall, lastProcessed, cleanPasses>>
    /\ UNCHANGED <<normVars, otherVars, readError>>

\* the tail of load_csv_to_staging: _mark_file_processed when total_rows > 0
\* (the hash is computed from the file as it is at this moment), then return;
\* extract_all_csv_files adds the counts to its sums
MarkFileProcessed ==
    /\ xpc = "mark"
    /\ etl_file_tracker' =
         IF ret[1] > 0
         THEN (csv_file :> [file_hash |-> _calculate_file_hash(files[csv_file]),
                            record_count |-> ret[1]]) @@ etl_file_tracker
         ELSE etl_file_tracker
    /\ result' = [file |-> csv_file, rows |-> ret,
                  how |-> IF readError THEN "failed" ELSE "processed"]
    /\ totals' = Add3(totals, ret)
    /\ todo' = Tail(todo)
    /\ xpc' = "file"
    /\ lastProcessed' = IF ret[1] > 0
                        THEN (csv_file :> parsedContent) @@ lastProcessed
                        ELSE lastProcessed
    /\ cleanPasses' = IF unchangedInCall /\ ~readError
                      THEN [cleanPasses EXCEPT ![csv_file] = Min(2, @ + 1)]
                      ELSE cleanPasses
    /\ UNCHANGED <<files, staging, csv_file, batch_data, ret, results, edits, lastUpsert,
                   parsedContent, unchangedInCall>>
    /\ UNCHANGED <<normVars, otherVars, overwritten, readError, batchFailed>>

\* extract_all_csv_files, exit: the sums of the entity are the result
ExtractAllEnd ==
    /\ xpc = "file"
    /\ todo = <<>>
    /\ results' = totals
    /\ xpc' = "idle"
    /\ UNCHANGED <<files, etl_file_tracker, staging, todo, csv_file, batch_data, ret,
                   result, totals, edits, lastUpsert, parsedContent,
                   unchangedInCall, lastProcessed, cleanPasses>>
    /\ UNCHANGED <<normVars, otherVars, overwritten, readError, batchFailed>>

\* the environment rewrites a source file, at any moment
ModifyFile ==
    /\ edits < MaxEdits
    /\ \E f \in FileNames, c \in Contents :
         /\ c # files[f]
         /\ files' = [files EXCEPT ![f] = c]
         /\ cleanPasses' = [cleanPasses EXCEPT ![f] = 0]
         /\ unchangedInCall' = IF f = csv_file /\ xpc \in {"process", "upsert", "mark"}
                               THEN FALSE ELSE unchangedInCall
    /\ edits' = edits + 1
    /\ UNCHANGED <<etl_file_tracker, staging, xpc, todo, csv_file, batch_data, ret,
                   result, totals, results, lastUpsert, parsedContent,
                   lastProcessed>>
    /\ UNCHANGED <<normVars, otherVars, overwritten, readError, batchFailed>>

StatsZero == [processed |-> 0, transformed |-> 0, skipped |-> 0, existing |-> 0]

InitNorm ==
    /\ transformed = [t \in Tables |-> <<>>]
    /\ tables_exist = FALSE
    /\ auto_increment = [t \in Tables |-> 1]
    /\ stats = [t \in Tables |-> StatsZero]
    /\ tpc = "idle"
    /\ outcome = "none"
    /\ staged = 0
    /\ runs = 0
    /\ overwritten = [t \in Tables |-> {}]
    /\ riDropped = [t \in Tables |-> 0]
    /\ runFaulty = FALSE
    /\ cleanRuns = 0
    /\ insertions = [t \in Tables |-> <<>>]
    /\ conflict = FALSE

InitSort ==
    /\ spc = "idle"
    /\ dfA = <<>>
    /\ dfB = <<>>
    /\ writtenA = <<>>
    /\ writtenB = <<>>
    /\ sorted = {}

InitPipe ==
    /\ mode = "none"
    /\ ppc = "none"
    /\ stageLog = <<>>
    /\ exitCode = -1
    /\ running = FALSE
    /\ total_runs = 0
    /\ successful_runs = 0
    /\ jobResult = "none"
    /\ viaSchedule = FALSE
    /\ clock = 0
    /\ next_run = 0
    /\ dueDuringRun = FALSE
    /\ firedLate = FALSE
    /\ sigIn = "none"
    /\ recorded = {}
    /\ reported = FALSE

LoadEntities == <<"branches", "customers">>

LoadEntitySet == {LoadEntities[i] : i \in DOMAIN LoadEntities}

\* no quality summary was printed
NoSummary == [kind |-> "none", loaded |-> 0, extracted |-> 0]

InitLoad ==
    /\ tstore = [e \in LoadEntitySet |-> 0]
    /\ production = [e \in LoadEntitySet |-> <<>>]
    /\ hwm = [e \in LoadEntitySet |-> 0]
    /\ lpc = "idle"
    /\ lent = 1
    /\ appended = [e \in LoadEntitySet |-> 0]
    /\ load_results = [e \in LoadEntitySet |-> TRUE]
    /\ counts = [e \in LoadEntitySet |-> [mysql |-> 0, postgresql |-> 0, synced |-> TRUE]]
    /\ all_synced = TRUE
    /\ loadRuns = 0
    /\ quietRuns = 0
    /\ failedBefore = [e \in LoadEntitySet |-> FALSE]
    /\ fresh = [e \in LoadEntitySet |-> FALSE]
    /\ extracted = 0
    /\ loaded = 0
    /\ summary = NoSummary

NullDate == [year |-> 0, month |-> 0, day |-> 0]

InitDate ==
    /\ dpc = "idle"
    /\ today = NullDate
    /\ dval = <<>>
    /\ dres = NullDate
    /\ dresV = NullDate
    /\ age = 0
    /\ ageV = 0

InitCell ==
    /\ cpc = "idle"
    /\ cin = <<>>
    /\ cout = <<>>

InitRows ==
    /\ rpc = "idle"
    /\ rtable = "loans"
    /\ rin = <<>>
    /\ rout = <<>>
    /\ raborted = FALSE
    /\ routV = <<>>

InitOther ==
    /\ InitSort
    /\ InitPipe
    /\ InitLoad
    /\ InitDate
    /\ InitCell
    /\ InitRows

InitExtract ==
    /\ files = [f \in FileNames |-> <<>>]
    /\ etl_file_tracker = <<>>
    /\ staging = [t \in Tables |-> <<>>]
    /\ xpc = "idle"
    /\ todo = <<>>
    /\ csv_file = "none"
    /\ batch_data = <<>>
    /\ ret = <<0, 0, 0>>
    /\ result = [file |-> "none", rows |-> <<0, 0, 0>>, how |-> "none"]
    /\ totals = <<0, 0, 0>>
    /\ results = <<0, 0, 0>>
    /\ edits = 0
    /\ lastUpsert = [t \in Tables |-> <<>>]
    /\ parsedContent = <<>>
    /\ unchangedInCall = TRUE
    /\ lastProcessed = <<>>
    /\ cleanPasses = [f \in FileNames |-> 0]
    /\ readError = FALSE
    /\ batchFailed = FALSE
    /\ InitNorm
    /\ InitOther

vars == <<extractVars, normVars, otherVars, staging, lastUpsert, overwritten>>

NextExtract ==
    \/ ExtractAllStart
    \/ LoadCsvToStaging
    \/ ProcessSmallFile
    \/ UpsertBatch
    \/ MarkFileProcessed
    \/ ExtractAllEnd
    \/ ModifyFile

SpecExtract == InitExtract /\ [][NextExtract]_vars

\* ------------------------------------------- extract.py, the numeric sort
A1 == <<"A", "1">>

\* rows of a branches file: A1 and B1 are different keys with the same
\* numeric sort key 1, B1 occurs with two cities, B2 sorts after both
SortRowDomain ==
    { [branch_id |-> B1, city |-> Pune], [branch_id |-> B1, city |-> Goa],
      [branch_id |-> A1, city |-> Pune], [branch_id |-> B2, city |-> Goa] }

SortContents == UNION {[1..n -> SortRowDomain] : n \in 0..MaxSortRows}

\* the sequences of rows _process_small_file may hand to the upsert loop for
\* a file holding content: sorted by numeric key, null texts mapped, rows
\* without key dropped, duplicate keys collapsed to the last one
WriteSequences(content, pk) ==
    { DropDuplicatesLast(ValidKeyed(_process_dataframe_raw(content, p), pk), pk) :
        p \in SortOrders(content, pk) }

\* two files are put in place: the second holds the rows of the first in
\* some other order
ReadPair ==
    /\ spc = "idle"
    /\ \E a \in SortContents : \E p \in Perms(Len(a)) :
         /\ dfA' = a
         /\ dfB' = [i \in 1..Len(a) |-> a[p[i]]]
         /\ dfB' # dfA'
    /\ spc' = "read"
    /\ UNCHANGED <<writtenA, writtenB, sorted>>
    /\ UNCHANGED <<extractVars, normVars, pipeVars, loadVars, pureVars, staging, lastUpsert, overwritten>>

\* _process_small_file on the first file, up to the write loop
SortFirst ==
    /\ spc = "read"
    /\ "A" \notin sorted
    /\ \E w \in WriteSequences(dfA, PK("branches")) : writtenA' = w
    /\ sorted' = sorted \cup {"A"}
    /\ spc' = IF sorted' = {"A", "B"} THEN "done" ELSE "read"
    /\ UNCHANGED <<dfA, dfB, writtenB>>
    /\ UNCHANGED <<extractVars, normVars, pipeVars, loadVars, pureVars, staging, lastUpsert, overwritten>>

\* _process_small_file on the second file, up to the write loop
SortSecond ==
    /\ spc = "read"
    /\ "B" \notin sorted
    /\ \E w \in WriteSequences(dfB, PK("branches")) : writtenB' = w
    /\ sorted' = sorted \cup {"B"}
    /\ spc' = IF sorted' = {"A", "B"} THEN "done" ELSE "read"
    /\ UNCHANGED <<dfA, dfB, writtenA>>
    /\ UNCHANGED <<extractVars, normVars, pipeVars, loadVars, pureVars, staging, lastUpsert, overwritten>>

NextSort ==
    \/ ReadPair
    \/ SortFirst
    \/ SortSecond

SpecSort == InitExtract /\ [][NextSort]_vars

\* --------------------------------------------------------- transform.py
NA == <<"N", "A">>

\* the texts safe_val takes for missing
SafeValNulls == { <<>>, <<"N", "o", "n", "e">>, <<"N", "a", "N">>, <<"n", "a", "n">>,
                  <<"N", "U", "L", "L">> }

\* safe_val(val, default, title=, upper=, lower=): the default for a missing
\* value, otherwise the stripped text in the asked letter case
safe_val(val, default, how) ==
    IF val = None THEN default
    ELSE IF Strip(val) \in SafeValNulls \/ Lower(Strip(val)) = <<"n", "a", "n">> THEN default
    ELSE IF how = "title" THEN Title(Strip(val))
    ELSE IF how = "upper" THEN Upper(Strip(val))
    ELSE IF how = "lower" THEN Lower(Strip(val))
    ELSE Strip(val)

\* ORDER BY <primary key> over a table whose keys are unique
RECURSIVE SortByKey(_, _)
SortByKey(rows, pk) ==
    IF rows = <<>> THEN <<>>
    ELSE LET m == CHOOSE i \in DOMAIN rows :
                      \A j \in DOMAIN rows : ~StrLess(rows[j][pk], rows[i][pk])
         IN  <<rows[m]>> \o SortByKey(SelectIdx(rows, 1, DOMAIN rows \ {m}), pk)

NumBatches(n) == (n + batch_size - 1) \div batch_size

\* fetch_data_in_batches: LIMIT batch_size pages in key order; a store error
\* on a page ends the loop and the pages read so far are the result.  cut is
\* the number of pages read without error.
fetch_data_in_batches(t, cut) ==
    FirstN(SortByKey(staging[t], PK(t)), cut * batch_size)

\* get_existing_branch_ids
get_existing_branch_ids == KeysOf(transformed["branches"], "branch_id")

\* SELECT customer_id FROM transformed_customers
\* (faulty variant: every id passes the filter)
valid_customer_ids_any == 0..99
valid_customer_ids == KeysOf(transformed["customers"], "customer_id")

\* one INSERT statement of several rows into a table with an AUTO_INCREMENT
\* display_id and a UNIQUE key column: a key that is already in the table or
\* twice in the statement fails the whole statement
\* (faulty variant: the key column has no UNIQUE constraint)
StatementFailsNever(rows, ukey, batch) == FALSE
StatementFails(rows, ukey, batch) ==
    \/ \E i \in DOMAIN batch : batch[i][ukey] \in KeysOf(rows, ukey)
    \/ \E i, j \in DOMAIN batch : i # j /\ batch[i][ukey] = batch[j][ukey]

WithDisplayId(r, id) ==
    [c \in DOMAIN r \cup {"display_id"} |-> IF c = "display_id" THEN id ELSE r[c]]

AppendRows(rows, batch, next) ==
    rows \o [i \in 1..Len(batch) |-> WithDisplayId(batch[i], next + i - 1)]

\* the insert loop of a transform function: executemany per batch of
\* batch_size rows.  failAt is the batch at which the store fails (0: none).
\* The result tells whether every statement went through, the rows of the
\* table before commit, and the AUTO_INCREMENT counter, which the store does
\* not wind back.
RECURSIVE InsertBatches(_, _, _, _, _, _)
InsertBatches(rows, ukey, data, next, failAt, n) ==
    IF data = <<>> THEN [ok |-> TRUE, rows |-> rows, next |-> next, dup |-> FALSE]
    ELSE LET batch == FirstN(data, batch_size)
         IN  IF n = failAt THEN [ok |-> FALSE, rows |-> rows, next |-> next, dup |-> FALSE]
             ELSE IF StatementFails(rows, ukey, batch)
                  THEN [ok |-> FALSE, rows |-> rows, next |-> next + Len(batch), dup |-> TRUE]
             ELSE InsertBatches(AppendRows(rows, batch, next), ukey,
                                DropN(data, batch_size), next + Len(batch), failAt, n + 1)

\* the rows transform_branches inserts: staging rows whose key is not among
\* the branch ids already transformed, first of each key, cleaned
BranchesNew(all_data) ==
    SelectIdx(all_data, 1,
              {i \in DOMAIN all_data : all_data[i].branch_id \notin get_existing_branch_ids})

BranchesClean(df_new) ==
    LET d == DropDuplicatesFirst(df_new, "branch_id")
    IN  [i \in DOMAIN d |-> [branch_id |-> safe_val(d[i].branch_id, NA, "plain"),
                             city |-> safe_val(d[i].city, NA, "title")]]

\* the rows transform_customers inserts: customer_id is the position of the
\* row in key order, counted from 1
CustomersClean(all_data) ==
    LET d == DropDuplicatesFirst(all_data, "customer_id")
    IN  [i \in DOMAIN d |-> [customer_id |-> i,
                             first_name |-> safe_val(d[i].first_name, NA, "title")]]

\* the rows transform_loans / transform_transactions insert: the key is the
\* position of the row in key order, customer_id is int(customer_id), and
\* only rows whose customer_id is a customer_id of transformed_customers stay
ChildRenumbered(t, all_data) ==
    LET d == DropDuplicatesFirst(all_data, PK(t))
        text == IF t = "loans" THEN "loan_type" ELSE "transaction_type"
        how == IF t = "loans" THEN "title" ELSE "upper"
    IN  [i \in DOMAIN d |->
            (PK(t) :> i) @@ ("customer_id" :> d[i].customer_id)
                         @@ (text :> safe_val(d[i][text], NA, how))]

\* astype(int) raises when a customer_id is NULL or not an integer text
AstypeIntRaises(d) == \E i \in DOMAIN d : ~IsIntText(d[i].customer_id)

ChildClean(d) ==
    LET ints == [i \in DOMAIN d |-> [d[i] EXCEPT !.customer_id = IntOf(@)]]
    IN  SelectIdx(ints, 1, {i \in DOMAIN ints : ints[i].customer_id \in valid_customer_ids})

\* the display_ids of the rows that were appended to a table
NewDisplayIds(before, after) ==
    [i \in 1..(Len(after) - Len(before)) |-> after[Len(before) + i].display_id]

NoteInsertions(h, before, after) ==
    [t \in Tables |-> IF Len(after[t]) > Len(before[t])
                      THEN h[t] \o NewDisplayIds(before[t], after[t]) ELSE h[t]]

\* how a run ends: the position returns to idle; a run without injected fault
\* counts as a clean run, a run with one ends the count
EndRun(how, faulty) ==
    /\ tpc' = "idle"
    /\ outcome' = how
    /\ cleanRuns' = IF faulty THEN 0 ELSE Min(2, cleanRuns + 1)

\* run_transformation, entry: a new DataTransformer (fresh stats),
\* connect_databases (which may raise) and create_transformed_tables (which
\* creates the tables only when they do not exist)
RunTransformation ==
    /\ tpc = "idle"
    /\ xpc = "idle"
    /\ runs < MaxRuns
    /\ runs' = runs + 1
    /\ stats' = [t \in Tables |-> StatsZero]
    /\ riDropped' = [t \in Tables |-> 0]
    /\ conflict' = FALSE
    /\ \E connected \in BOOLEAN :
         IF connected
         THEN /\ tables_exist' = TRUE
              /\ tpc' = "branches"
              /\ runFaulty' = FALSE
              /\ UNCHANGED <<outcome, cleanRuns>>
         ELSE /\ runFaulty' = TRUE
              /\ EndRun("failed", TRUE)
              /\ UNCHANGED tables_exist
    /\ UNCHANGED <<transformed, auto_increment, staged, insertions, extractVars, otherVars, staging,
                   lastUpsert, overwritten>>

\* transform_branches
TransformBranches ==
    /\ tpc = "branches"
    /\ \E cut \in 0..NumBatches(Len(staging["branches"])), failAt \in 0..1 :
         LET all_data == fetch_data_in_batches("branches", cut)
             df_new == BranchesNew(all_data)
             batch == BranchesClean(df_new)
             faulty == runFaulty \/ cut < NumBatches(Len(staging["branches"])) \/ failAt = 1
         IN  /\ failAt = 1 => df_new # <<>>
             /\ runFaulty' = faulty
             /\ conflict' = (conflict \/ (df_new # <<>> /\ failAt = 0 /\
                                StatementFails(transformed["branches"], "branch_id", batch)))
             /\ IF all_data = <<>>
                THEN /\ tpc' = "customers"
                     /\ UNCHANGED <<transformed, auto_increment, stats, outcome, cleanRuns>>
                ELSE IF df_new = <<>>
                THEN /\ stats' = [stats EXCEPT !["branches"].processed = Len(all_data),
                                               !["branches"].existing = Len(all_data)]
                     /\ tpc' = "customers"
                     /\ UNCHANGED <<transformed, auto_increment, outcome, cleanRuns>>
                ELSE IF failAt = 1
                THEN /\ stats' = [stats EXCEPT
                                    !["branches"].processed = Len(all_data),
                                    !["branches"].existing = Len(all_data) - Len(df_new)]
                     /\ EndRun("failed", faulty)
                     /\ UNCHANGED <<transformed, auto_increment>>
                ELSE IF StatementFails(transformed["branches"], "branch_id", batch)
                THEN /\ stats' = [stats EXCEPT
                                    !["branches"].processed = Len(all_data),
                                    !["branches"].existing = Len(all_data) - Len(df_new)]
                     /\ auto_increment' = [auto_increment EXCEPT !["branches"] = @ + Len(batch)]
                     /\ EndRun("failed", faulty)
                     /\ UNCHANGED transformed
                ELSE /\ transformed' = [transformed EXCEPT
                                          !["branches"] = AppendRows(@, batch, auto_increment["branches"])]
                     /\ auto_increment' = [auto_increment EXCEPT !["branches"] = @ + Len(batch)]
                     /\ stats' = [stats EXCEPT
                                    !["branches"].processed = Len(all_data),
                                    !["branches"].existing = Len(all_data) - Len(df_new),
                                    !["branches"].transformed = Len(batch)]
                     /\ tpc' = "customers"
                     /\ UNCHANGED <<outcome, cleanRuns>>
    /\ insertions' = NoteInsertions(insertions, transformed, transformed')
    /\ UNCHANGED <<tables_exist, staged, runs, riDropped, extractVars, otherVars, staging, lastUpsert,
                   overwritten>>

\* transform_customers
TransformCustomers ==
    /\ tpc = "customers"
    /\ \E cut \in 0..NumBatches(Len(staging["customers"])),
          failAt \in 0..NumBatches(Len(staging["customers"])) :
         LET existing_customer_count == Len(transformed["customers"])
             all_data == fetch_data_in_batches("customers", cut)
             df_clean == CustomersClean(all_data)
             ins == InsertBatches(transformed["customers"], "customer_id", df_clean,
                                  auto_increment["customers"], failAt, 1)
             faulty == runFaulty \/ cut < NumBatches(Len(staging["customers"])) \/ failAt > 0
         IN  /\ failAt > 0 => /\ existing_customer_count = 0
                              /\ failAt <= NumBatches(Len(df_clean))
             /\ runFaulty' = faulty
             /\ conflict' = (conflict \/ (all_data # <<>> /\ existing_customer_count = 0
                                           /\ ins.dup))
             /\ IF all_data = <<>>
                THEN /\ tpc' = "loans"
                     /\ UNCHANGED <<transformed, auto_increment, stats, outcome, cleanRuns>>
                ELSE IF existing_customer_count > 0
                THEN /\ stats' = [stats EXCEPT
                                    !["customers"].processed = Len(all_data),
                                    !["customers"].existing = existing_customer_count]
                     /\ tpc' = "loans"
                     /\ UNCHANGED <<transformed, auto_increment, outcome, cleanRuns>>
                ELSE /\ auto_increment' = [auto_increment EXCEPT !["customers"] = ins.next]
                     /\ IF ins.ok
                        THEN /\ transformed' = [transformed EXCEPT !["customers"] = ins.rows]
                             /\ stats' = [stats EXCEPT
                                            !["customers"].processed = Len(all_data),
                                            !["customers"].transformed = Len(df_clean)]
                             /\ tpc' = "loans"
                             /\ UNCHANGED <<outcome, cleanRuns>>
                        ELSE /\ stats' = [stats EXCEPT !["customers"].processed = Len(all_data)]
                             /\ EndRun("failed", faulty)
                             /\ UNCHANGED transformed
    /\ insertions' = NoteInsertions(insertions, transformed, transformed')
    /\ UNCHANGED <<tables_exist, staged, runs, riDropped, extractVars, otherVars, staging, lastUpsert,
                   overwritten>>

\* transform_loans and transform_transactions: the same steps on their tables
TransformChild(t, nextpc) ==
    \E cut \in 0..NumBatches(Len(staging[t])), failAt \in 0..NumBatches(Len(staging[t])) :
      LET existing_count == Len(transformed[t])
          all_data == fetch_data_in_batches(t, cut)
          renumbered == ChildRenumbered(t, all_data)
          df_clean == ChildClean(renumbered)
          ins == InsertBatches(transformed[t], PK(t), df_clean, auto_increment[t], failAt, 1)
          faulty == runFaulty \/ cut < NumBatches(Len(staging[t])) \/ failAt > 0
          last == (nextpc = "idle")
      IN  /\ failAt > 0 => /\ existing_count = 0
                           /\ ~AstypeIntRaises(renumbered)
                           /\ failAt <= NumBatches(Len(df_clean))
          /\ runFaulty' = faulty
          /\ conflict' = (conflict \/ (all_data # <<>> /\ existing_count = 0
                                        /\ ~AstypeIntRaises(renumbered) /\ ins.dup))
          /\ IF all_data = <<>>
             THEN /\ IF last THEN EndRun("ok", faulty)
                             ELSE tpc' = nextpc /\ UNCHANGED <<outcome, cleanRuns>>
                  /\ UNCHANGED <<transformed, auto_increment, stats, riDropped>>
             ELSE IF existing_count > 0
             THEN /\ stats' = [stats EXCEPT ![t].processed = Len(all_data),
                                            ![t].existing = existing_count]
                  /\ IF last THEN EndRun("ok", faulty)
                             ELSE tpc' = nextpc /\ UNCHANGED <<outcome, cleanRuns>>
                  /\ UNCHANGED <<transformed, auto_increment, riDropped>>
             ELSE IF AstypeIntRaises(renumbered)
             THEN /\ stats' = [stats EXCEPT ![t].processed = Len(all_data)]
                  /\ EndRun("failed", faulty)
                  /\ UNCHANGED <<transformed, auto_increment, riDropped>>
             ELSE /\ auto_increment' = [auto_increment EXCEPT ![t] = ins.next]
                  /\ riDropped' = [riDropped EXCEPT ![t] = Len(renumbered) - Len(df_clean)]
                  /\ IF ins.ok
                     THEN /\ transformed' = [transformed EXCEPT ![t] = ins.rows]
                          /\ stats' = [stats EXCEPT ![t].processed = Len(all_data),
                                                    ![t].transformed = Len(df_clean)]
                          /\ IF last THEN EndRun("ok", faulty)
                                     ELSE tpc' = nextpc /\ UNCHANGED <<outcome, cleanRuns>>
                     ELSE /\ stats' = [stats EXCEPT ![t].processed = Len(all_data)]
                          /\ EndRun("failed", faulty)
                          /\ UNCHANGED transformed
          /\ insertions' = NoteInsertions(insertions, transformed, transformed')

TransformLoans ==
    /\ tpc = "loans"
    /\ TransformChild("loans", "transactions")
    /\ UNCHANGED <<tables_exist, staged, runs, extractVars, otherVars, staging, lastUpsert, overwritten>>

\* transform_transactions, then export_csv and print_summary, which write
\* nothing to the stores, and the return of run_transformation
TransformTransactions ==
    /\ tpc = "transactions"
    /\ TransformChild("transactions", "idle")
    /\ UNCHANGED <<tables_exist, staged, runs, extractVars, otherVars, staging, lastUpsert, overwritten>>

\* ------------------------------------------------- staging between the runs
L1 == <<"L", "1">>
L2 == <<"L", "2">>
T1 == <<"T", "1">>
One == <<"1">>
Two == <<"2">>
C1Text == <<"C", "1">>
Ann == <<"a", "n", "n">>
Bob == <<"b", "o", "b">>
Home == <<"h", "o", "m", "e">>
Dep == <<"d", "e", "p">>

\* the staging rows the extractor may write, per table
StageRowDomain ==
    [branches     |-> { [branch_id |-> B1, city |-> Pune], [branch_id |-> B1, city |-> Goa],
                        [branch_id |-> SB1, city |-> None], [branch_id |-> B2, city |-> Goa] },
     customers    |-> { [customer_id |-> One, first_name |-> Ann],
                        [customer_id |-> Two, first_name |-> Bob] },
     loans        |-> { [loan_id |-> L1, customer_id |-> One, loan_type |-> Home],
                        [loan_id |-> L1, customer_id |-> Two, loan_type |-> Home],
                        [loan_id |-> L2, customer_id |-> C1Text, loan_type |-> None] },
     transactions |-> { [transaction_id |-> T1, customer_id |-> One, transaction_type |-> Dep],
                        [transaction_id |-> T1, customer_id |-> Two, transaction_type |-> Dep] }]

\* _upsert_batch_data with a batch that commits, called by the extraction
\* phase, which in a pipeline run precedes the normalizer
UpsertBatchData ==
    /\ tpc = "idle"
    /\ xpc = "idle"
    /\ staged < MaxStage
    /\ staged' = staged + 1
    /\ \E t \in Tables : \E r \in StageRowDomain[t] :
         /\ staging' = [staging EXCEPT ![t] = UpsertRows(@, PK(t), <<r>>)]
         /\ lastUpsert' = [lastUpsert EXCEPT ![t] = NoteUpserts(@, PK(t), <<r>>)]
         /\ overwritten' = [overwritten EXCEPT ![t] = NoteOverwrites(@, staging[t], PK(t), <<r>>)]
    /\ cleanRuns' = 0
    /\ UNCHANGED <<transformed, tables_exist, auto_increment, stats, tpc, outcome, runs,
                   riDropped, runFaulty, insertions, conflict, extractVars, otherVars>>

Init == InitExtract

Next ==
    \/ UpsertBatchData
    \/ RunTransformation
    \/ TransformBranches
    \/ TransformCustomers
    \/ TransformLoans
    \/ TransformTransactions

Spec == Init /\ [][Next]_vars

\* ------------------------------------------------ properties of extraction
\* the rows of a file whose columns are not those of the branches schema
WrongColumns(content) ==
    content # <<>> /\ \E i \in DOMAIN content : DOMAIN content[i] # {"branch_id", "city"}

\* the keys of the rows of a file that survive the cleaning of
\* _process_small_file; a file with other columns than the schema's has none
ValidKeys(content) ==
    IF WrongColumns(content) THEN {}
    ELSE {RawValue(content[i].branch_id) : i \in DOMAIN content} \ {None, <<>>}

C2_OneRowLatestValues ==
    \A t \in Tables :
        \A k \in DOMAIN lastUpsert[t] :
            /\ Cardinality({i \in DOMAIN staging[t] : staging[t][i][PK(t)] = k}) = 1
            /\ \A i \in DOMAIN staging[t] :
                   staging[t][i][PK(t)] = k => staging[t][i] = lastUpsert[t][k]

\* a key was upserted again with other non-key values
C2_Witness ==
    \E k \in overwritten["branches"] :
        \E i \in DOMAIN staging["branches"] :
            /\ staging["branches"][i].branch_id = k
            /\ staging["branches"][i] = lastUpsert["branches"][k]

\* C3: once a file has been through two calls of load_csv_to_staging without
\* being modified, every valid key of the file is in the staging store (the
\* second call recovers what a failed batch of the first call lost)
C3_RerunRecoversFailedBatch ==
    \A f \in FileNames :
        cleanPasses[f] >= 2 => ValidKeys(files[f]) \subseteq KeysOf(staging[TableOf(f)], PK(TableOf(f)))

\* C4: the hash of a ledger entry is the hash of the rows that the last call
\* which updated the entry had read and written to staging
C4_LedgerHashIsProcessedBytes ==
    \A f \in DOMAIN etl_file_tracker :
        /\ f \in DOMAIN lastProcessed
        /\ etl_file_tracker[f].file_hash = _calculate_file_hash(lastProcessed[f])


\* ------------------------------------------------------------- load.py
\* The DataTransformer of src/src/load.py: the same pipeline of four
\* transform functions, on tables that every run drops and creates anew,
\* with the business keys kept and every store error of an INSERT caught.

\* the insert loop of the load.py transform functions: executemany per batch
\* inside try / except mysql.connector.Error, so a batch that fails (failAt,
\* or a duplicate key) is left out and the loop goes on
RECURSIVE InsertBatchesCaught(_, _, _, _, _, _)
InsertBatchesCaught(rows, ukey, data, next, failAt, n) ==
    IF data = <<>> THEN [rows |-> rows, next |-> next, dup |-> FALSE, done |-> 0]
    ELSE LET batch == FirstN(data, batch_size)
             fails == StatementFails(rows, ukey, batch)
             skip == (n = failAt) \/ fails
             rest == InsertBatchesCaught(
                         IF skip THEN rows ELSE AppendRows(rows, batch, next), ukey,
                         DropN(data, batch_size),
                         IF n = failAt THEN next ELSE next + Len(batch), failAt, n + 1)
         IN  [rest EXCEPT !.dup = @ \/ (n # failAt /\ fails),
                          !.done = @ + (IF skip THEN 0 ELSE Len(batch))]

\* the rows the load.py transform_customers inserts
CustomersCleanKeyed(all_data) ==
    LET d == DropDuplicatesFirst(all_data, "customer_id")
    IN  [i \in DOMAIN d |-> [customer_id |-> safe_val(d[i].customer_id, NA, "plain"),
                             first_name |-> safe_val(d[i].first_name, NA, "title")]]

\* the rows the load.py transform_loans / transform_transactions insert
ChildCleanKeyed(t, all_data) ==
    LET d == DropDuplicatesFirst(all_data, PK(t))
        text == IF t = "loans" THEN "loan_type" ELSE "transaction_type"
        how == IF t = "loans" THEN "title" ELSE "upper"
        valid_custs == KeysOf(transformed["customers"], "customer_id")
        c == [i \in DOMAIN d |-> safe_val(d[i].customer_id, NA, "plain")]
        kept == SelectIdx(d, 1, {i \in DOMAIN d : c[i] \in valid_custs})
    IN  [i \in DOMAIN kept |->
            (PK(t) :> safe_val(kept[i][PK(t)], NA, "plain"))
                @@ ("customer_id" :> safe_val(kept[i].customer_id, NA, "plain"))
                @@ (text :> safe_val(kept[i][text], NA, how))]

\* run_transformation of load.py, entry: a new DataTransformer,
\* connect_databases, and create_transformed_tables, which drops the four
\* tables and creates them again (AUTO_INCREMENT starts at 1)
VariantRunTransformation ==
    /\ tpc = "idle"
    /\ xpc = "idle"
    /\ runs < MaxRuns
    /\ runs' = runs + 1
    /\ stats' = [t \in Tables |-> StatsZero]
    /\ riDropped' = [t \in Tables |-> 0]
    /\ conflict' = FALSE
    /\ \E connected \in BOOLEAN :
         IF connected
         THEN /\ tables_exist' = TRUE
              /\ transformed' = [t \in Tables |-> <<>>]
              /\ auto_increment' = [t \in Tables |-> 1]
              /\ tpc' = "branches"
              /\ runFaulty' = FALSE
              /\ UNCHANGED <<outcome, cleanRuns>>
         ELSE /\ runFaulty' = TRUE
              /\ EndRun("failed", TRUE)
              /\ UNCHANGED <<tables_exist, transformed, auto_increment>>
    /\ UNCHANGED <<staged, insertions, extractVars, otherVars, staging, lastUpsert, overwritten>>

\* a transform function of load.py on table t: fetch, clean, insert in
\* batches (one statement for all rows when single), commit
VariantTransform(t, data, single, nextpc, cut, failAt) ==
    LET all_data == fetch_data_in_batches(t, cut)
        ins == InsertBatchesCaught(transformed[t], PK(t), data, auto_increment[t], failAt, 1)
        one == IF failAt = 1 THEN [rows |-> transformed[t], next |-> auto_increment[t],
                                   dup |-> FALSE, done |-> 0]
               ELSE IF StatementFails(transformed[t], PK(t), data)
               THEN [rows |-> transformed[t], next |-> auto_increment[t] + Len(data),
                     dup |-> TRUE, done |-> 0]
               ELSE [rows |-> AppendRows(transformed[t], data, auto_increment[t]),
                     next |-> auto_increment[t] + Len(data), dup |-> FALSE, done |-> Len(data)]
        res == IF single THEN one ELSE ins
        faulty == runFaulty \/ cut < NumBatches(Len(staging[t])) \/ failAt > 0
    IN  /\ failAt > 0 => failAt <= (IF single THEN (IF data = <<>> THEN 0 ELSE 1)
                                              ELSE NumBatches(Len(data)))
        /\ runFaulty' = faulty
        /\ IF all_data = <<>> \/ data = <<>>
           THEN /\ stats' = [stats EXCEPT ![t].processed = Len(all_data)]
                /\ UNCHANGED <<transformed, auto_increment, conflict>>
           ELSE /\ transformed' = [transformed EXCEPT ![t] = res.rows]
                /\ auto_increment' = [auto_increment EXCEPT ![t] = res.next]
                /\ conflict' = (conflict \/ res.dup)
                /\ stats' = [stats EXCEPT ![t].processed = Len(all_data),
                                          ![t].transformed = res.done]
        /\ IF nextpc = "idle" THEN EndRun("ok", faulty)
                              ELSE tpc' = nextpc /\ UNCHANGED <<outcome, cleanRuns>>
        /\ insertions' = NoteInsertions(insertions, transformed, transformed')
        /\ UNCHANGED <<tables_exist, staged, runs, riDropped, extractVars, otherVars, staging, lastUpsert,
                       overwritten>>

VariantTransformBranches ==
    /\ tpc = "branches"
    /\ \E cut \in 0..NumBatches(Len(staging["branches"])), failAt \in 0..1 :
         VariantTransform("branches", BranchesClean(fetch_data_in_batches("branches", cut)),
                          TRUE, "customers", cut, failAt)

VariantTransformCustomers ==
    /\ tpc = "customers"
    /\ \E cut \in 0..NumBatches(Len(staging["customers"])),
          failAt \in 0..NumBatches(Len(staging["customers"])) :
         VariantTransform("customers",
                          CustomersCleanKeyed(fetch_data_in_batches("customers", cut)),
                          FALSE, "loans", cut, failAt)

VariantTransformLoans ==
    /\ tpc = "loans"
    /\ \E cut \in 0..NumBatches(Len(staging["loans"])),
          failAt \in 0..NumBatches(Len(staging["loans"])) :
         VariantTransform("loans", ChildCleanKeyed("loans", fetch_data_in_batches("loans", cut)),
                          FALSE, "transactions", cut, failAt)

VariantTransformTransactions ==
    /\ tpc = "transactions"
    /\ \E cut \in 0..NumBatches(Len(staging["transactions"])),
          failAt \in 0..NumBatches(Len(staging["transactions"])) :
         VariantTransform("transactions",
                          ChildCleanKeyed("transactions",
                                          fetch_data_in_batches("transactions", cut)),
                          FALSE, "idle", cut, failAt)

NextVariant ==
    \/ UpsertBatchData
    \/ VariantRunTransformation
    \/ VariantTransformBranches
    \/ VariantTransformCustomers
    \/ VariantTransformLoans
    \/ VariantTransformTransactions

SpecVariant == Init /\ [][NextVariant]_vars

\* --------------------------------------------------------------- main.py
\* the stages of run_full_pipeline in the order of its body: run_extract_phase,
\* run_transform_phase, run_load_phase (load_all_entities_incremental, then
\* verify_counts), and the quality tracker's summary
Stages == <<"extract", "transform", "load", "verify", "report">>

StageSet == {Stages[i] : i \in DOMAIN Stages}

StagePos(st) == CHOOSE i \in DOMAIN Stages : Stages[i] = st

\* the stage the body of run_full_pipeline goes on with after stage st
\* (faulty variant: the quality summary is printed before the counts are verified)
next_phase_swapped(st) ==
    IF st = "load" THEN "report"
    ELSE IF st = "report" THEN "verify"
    ELSE IF st = "verify" THEN "done"
    ELSE Stages[StagePos(st) + 1]
next_phase(st) ==
    IF StagePos(st) = Len(Stages) THEN "done" ELSE Stages[StagePos(st) + 1]

\* the stage whose return is followed by a record_... call of the tracker,
\* and what that call records: record_extraction, record_transformation,
\* and record_loading once run_load_phase (load, then verify) has returned
Recorders == [extract |-> "extract", transform |-> "transform", verify |-> "load"]

\* the statements of run_full_pipeline that follow the return of stage st:
\* the tracker records its results, print_summary and log_to_file emit them
RecordStage(st) ==
    /\ recorded' = IF st \in DOMAIN Recorders THEN recorded \cup {Recorders[st]} ELSE recorded
    /\ reported' = (reported \/ st = "report")

\* entry of run_full_pipeline: a new tracker is built, the first stage starts
BeginRun ==
    /\ stageLog' = << <<"start", Stages[1]>> >>
    /\ ppc' = Stages[1]
    /\ recorded' = {}
    /\ reported' = FALSE

\* how a run of the pipeline ends.  Full mode: main() calls sys.exit(0), or
\* catches the exception run_full_pipeline raised again and calls
\* sys.exit(1).  Schedule mode: run_complete_etl_job returns True, or catches
\* the exception and returns False; schedule re-bases the timed job on the
\* time of its completion; control is in the while loop again.
EndOfRun(ok) ==
    IF mode = "full"
    THEN /\ ppc' = "exited"
         /\ exitCode' = IF ok THEN 0 ELSE 1
         /\ UNCHANGED <<successful_runs, jobResult, next_run>>
    ELSE /\ ppc' = "loop"
         /\ jobResult' = IF ok THEN "true" ELSE "false"
         /\ successful_runs' = IF ok THEN successful_runs + 1 ELSE successful_runs
         /\ next_run' = IF viaSchedule THEN clock + interval_minutes ELSE next_run
         /\ UNCHANGED exitCode

\* main(), --mode full: run_full_pipeline is called
StartFull ==
    /\ mode = "none"
    /\ mode' = "full"
    /\ BeginRun
    /\ UNCHANGED <<exitCode, running, total_runs, successful_runs, jobResult, viaSchedule,
                   clock, next_run, dueDuringRun, firedLate, sigIn>>
    /\ UNCHANGED <<extractVars, normVars, sortVars, loadVars, pureVars, staging, lastUpsert, overwritten>>

\* main(), --mode schedule: CompleteETLScheduler.__init__ and start() up to
\* the entry of the initial run: the timed job is registered first, due one
\* interval from now, then run_complete_etl_job is called directly
StartScheduler ==
    /\ mode = "none"
    /\ mode' = "schedule"
    /\ running' = TRUE
    /\ next_run' = clock + interval_minutes
    /\ total_runs' = total_runs + 1
    /\ viaSchedule' = FALSE
    /\ BeginRun
    /\ UNCHANGED <<exitCode, successful_runs, jobResult, clock, dueDuringRun, firedLate, sigIn>>
    /\ UNCHANGED <<extractVars, normVars, sortVars, loadVars, pureVars, staging, lastUpsert, overwritten>>

\* the stage in work returns: the next statement of run_full_pipeline starts
\* the next stage, or the run is over
StageCompletes ==
    /\ ppc \in StageSet
    /\ IF next_phase(ppc) # "done"
       THEN /\ stageLog' = stageLog \o << <<"end", ppc>>, <<"start", next_phase(ppc)>> >>
            /\ ppc' = next_phase(ppc)
            /\ UNCHANGED <<exitCode, successful_runs, jobResult, next_run>>
       ELSE /\ stageLog' = Append(stageLog, <<"end", ppc>>)
            /\ EndOfRun(TRUE)
    /\ RecordStage(ppc)
    /\ UNCHANGED <<mode, running, total_runs, viaSchedule, clock, dueDuringRun, firedLate, sigIn>>
    /\ UNCHANGED <<extractVars, normVars, sortVars, loadVars, pureVars, staging, lastUpsert, overwritten>>

\* the stage in work raises: the except clause of run_full_pipeline logs the
\* failure and raises again; the tracker is not used
StageRaises ==
    /\ ppc \in StageSet
    /\ stageLog' = Append(stageLog, <<"raise", ppc>>)
    /\ EndOfRun(FALSE)
    /\ UNCHANGED <<mode, running, total_runs, viaSchedule, clock, dueDuringRun, firedLate, sigIn,
                   recorded, reported>>
    /\ UNCHANGED <<extractVars, normVars, sortVars, loadVars, pureVars, staging, lastUpsert, overwritten>>

\* a minute passes, during a run or during the sleeps of the while loop
Tick ==
    /\ mode = "schedule"
    /\ ppc # "exited"
    /\ clock < MaxClock
    /\ clock' = clock + 1
    /\ dueDuringRun' = (dueDuringRun \/ (ppc \in StageSet /\ clock < next_run /\ clock' >= next_run))
    /\ UNCHANGED <<mode, ppc, stageLog, exitCode, running, total_runs, successful_runs,
                   jobResult, viaSchedule, next_run, firedLate, sigIn, recorded, reported>>
    /\ UNCHANGED <<extractVars, normVars, sortVars, loadVars, pureVars, staging, lastUpsert, overwritten>>

\* while self.running: schedule.run_pending() finds the timed job due and
\* calls run_complete_etl_job
RunPending ==
    /\ mode = "schedule"
    /\ ppc = "loop"
    /\ running
    /\ clock >= next_run
    /\ total_runs < MaxJobs
    /\ total_runs' = total_runs + 1
    /\ viaSchedule' = TRUE
    /\ firedLate' = dueDuringRun
    /\ dueDuringRun' = FALSE
    /\ BeginRun
    /\ UNCHANGED <<mode, exitCode, running, successful_runs, jobResult, clock, next_run, sigIn>>
    /\ UNCHANGED <<extractVars, normVars, sortVars, loadVars, pureVars, staging, lastUpsert, overwritten>>

\* while self.running: the flag is down, start() returns and main() calls
\* sys.exit(0)
SchedulerStops ==
    /\ mode = "schedule"
    /\ ppc = "loop"
    /\ ~running
    /\ ppc' = "exited"
    /\ exitCode' = 0
    /\ UNCHANGED <<mode, stageLog, running, total_runs, successful_runs, jobResult,
                   viaSchedule, clock, next_run, dueDuringRun, firedLate, sigIn, recorded, reported>>
    /\ UNCHANGED <<extractVars, normVars, sortVars, loadVars, pureVars, staging, lastUpsert, overwritten>>

\* SIGINT or SIGTERM arrives.  Schedule mode: _signal_handler lowers the
\* running flag and returns, the interrupted code goes on.  Full mode: no
\* handler is installed, the stage in work is cut short (KeyboardInterrupt,
\* which main() answers with sys.exit(1), or the death of the process).
Signal ==
    /\ sigIn = "none"
    /\ ppc \in StageSet \cup {"loop"}
    /\ sigIn' = ppc
    /\ IF mode = "schedule"
       THEN /\ running' = FALSE
            /\ UNCHANGED <<ppc, stageLog, exitCode>>
       ELSE /\ stageLog' = Append(stageLog, <<"abort", ppc>>)
            /\ ppc' = "exited"
            /\ exitCode' = 1
            /\ UNCHANGED running
    /\ UNCHANGED <<mode, total_runs, successful_runs, jobResult, viaSchedule, clock, next_run,
                   dueDuringRun, firedLate, recorded, reported>>
    /\ UNCHANGED <<extractVars, normVars, sortVars, loadVars, pureVars, staging, lastUpsert, overwritten>>

NextPipe ==
    \/ StartFull
    \/ StartScheduler
    \/ StageCompletes
    \/ StageRaises
    \/ Tick
    \/ RunPending
    \/ SchedulerStops
    \/ Signal

SpecPipe == Init /\ [][NextPipe]_vars

\* ------------------------------------------------- main.py: the load phase
\* the rows of the transformed table beyond the mark
Delta(e) == tstore[e] - hwm[e]

\* the mark after a batch of n rows: it moves only when the batch is committed
\* (faulty variant: the mark moves whether or not the commit succeeded)
MarkAfterBatchAlways(mark, n, committed) == mark + n
MarkAfterBatch(mark, n, committed) == IF committed THEN mark + n ELSE mark

\* run_load_phase: all_synced is true when verify_counts reports every entity
\* synced
\* (faulty variant: the test of the synced flag is inverted)
all_synced_inverted(c) == \A e \in DOMAIN c : ~c[e].synced
all_synced_of(c) == \A e \in DOMAIN c : c[e].synced

\* the normalizer, between two load phases, adds a row to a transformed table
AddTransformed ==
    /\ lpc = "idle"
    /\ \E e \in LoadEntitySet :
         /\ tstore[e] < MaxT
         /\ tstore' = [tstore EXCEPT ![e] = @ + 1]
         /\ fresh' = [fresh EXCEPT ![e] = FALSE]
    /\ quietRuns' = 0
    /\ UNCHANGED <<production, hwm, lpc, lent, appended, load_results, counts, all_synced,
                   loadRuns, failedBefore, extracted, loaded, summary>>
    /\ UNCHANGED <<extractVars, normVars, sortVars, pipeVars, pureVars, staging, lastUpsert, overwritten>>

\* run_load_phase, entry: the loader is built and connects to both stores and
\* verifies the production tables; a failure raises and the phase is over.
\* The run's tracker holds the new rows its extraction phase reported.
RunLoadPhase ==
    /\ lpc = "idle"
    /\ loadRuns < MaxLoadRuns
    /\ loadRuns' = loadRuns + 1
    /\ extracted' \in 0..MaxExtracted
    /\ loaded' = 0
    /\ summary' = NoSummary
    /\ \E connected \in BOOLEAN :
         IF connected
         THEN /\ lpc' = "load"
              /\ lent' = 1
              /\ appended' = [e \in LoadEntitySet |-> 0]
              /\ load_results' = [e \in LoadEntitySet |-> TRUE]
              /\ UNCHANGED quietRuns
         ELSE /\ quietRuns' = 0
              /\ UNCHANGED <<lpc, lent, appended, load_results>>
    /\ UNCHANGED <<tstore, production, hwm, counts, all_synced, failedBefore, fresh>>
    /\ UNCHANGED <<extractVars, normVars, sortVars, pipeVars, pureVars, staging, lastUpsert, overwritten>>

\* the loader goes on to the next entity, or to verify_counts after the last
NextEntity ==
    IF lent < Len(LoadEntities)
    THEN /\ lent' = lent + 1
         /\ UNCHANGED lpc
    ELSE /\ lpc' = "verify"
         /\ UNCHANGED lent

\* load_all_entities_incremental, one batch of the entity in work: the next
\* rows beyond the mark, in surrogate-key order, are inserted and committed,
\* then the mark moves; a failed batch is rolled back and ends the entity's
\* load for this run
LoadBatch ==
    /\ lpc = "load"
    /\ LET e == LoadEntities[lent]
           n == Min(load_batch_size, Delta(e))
       IN  /\ Delta(e) > 0
           /\ \E committed \in BOOLEAN :
                /\ hwm' = [hwm EXCEPT ![e] = MarkAfterBatch(@, n, committed)]
                /\ IF committed
                   THEN /\ production' = [production EXCEPT
                                             ![e] = @ \o [i \in 1..n |-> hwm[e] + i]]
                        /\ appended' = [appended EXCEPT ![e] = @ + n]
                        /\ UNCHANGED <<load_results, failedBefore, lpc, lent>>
                   ELSE /\ load_results' = [load_results EXCEPT ![e] = FALSE]
                        /\ failedBefore' = [failedBefore EXCEPT ![e] = TRUE]
                        /\ NextEntity
                        /\ UNCHANGED <<production, appended>>
    /\ UNCHANGED <<tstore, counts, all_synced, loadRuns, quietRuns, fresh, extracted, loaded,
                   summary>>
    /\ UNCHANGED <<extractVars, normVars, sortVars, pipeVars, pureVars, staging, lastUpsert, overwritten>>

\* load_all_entities_incremental, the entity in work has no row beyond the
\* mark: it is reported synchronized, nothing is written
EntityDone ==
    /\ lpc = "load"
    /\ LET e == LoadEntities[lent]
       IN  /\ Delta(e) = 0
           /\ fresh' = [fresh EXCEPT ![e] = TRUE]
    /\ NextEntity
    /\ UNCHANGED <<tstore, production, hwm, appended, load_results, counts, all_synced,
                   loadRuns, quietRuns, failedBefore, extracted, loaded, summary>>
    /\ UNCHANGED <<extractVars, normVars, sortVars, pipeVars, pureVars, staging, lastUpsert, overwritten>>

\* sum(d.values())
RECURSIVE SumValues(_, _)
SumValues(d, keys) ==
    IF keys = {} THEN 0
    ELSE LET k == CHOOSE x \in keys : TRUE IN d[k] + SumValues(d, keys \ {k})

\* run_load_phase: the load_results it returns hold, per entity, the row
\* count of the production table that verify_counts reported
load_results_counts(c) == [e \in DOMAIN c |-> c[e].postgresql]

\* SimpleQualityTracker.record_loading
record_loading(res) == SumValues(res, DOMAIN res)

\* SimpleQualityTracker.print_summary, the line of the overall accuracy (the
\* ratio is kept as its two terms)
print_summary(l, x) ==
    IF x > 0 THEN [kind |-> "accuracy", loaded |-> l, extracted |-> x]
    ELSE [kind |-> "up to date", loaded |-> 0, extracted |-> 0]

\* verify_counts and the rest of run_load_phase: the row counts of both
\* stores per entity, synced when they are equal; all_synced over the
\* entities; then run_full_pipeline records the result in the tracker and
\* prints the quality summary
VerifyCounts ==
    /\ lpc = "verify"
    /\ counts' = [e \in LoadEntitySet |->
                    [mysql |-> tstore[e], postgresql |-> Len(production[e]),
                     synced |-> (tstore[e] = Len(production[e]))]]
    /\ all_synced' = all_synced_of(counts')
    /\ quietRuns' = IF \A e \in LoadEntitySet : load_results[e]
                    THEN Min(2, quietRuns + 1) ELSE 0
    /\ loaded' = record_loading(load_results_counts(counts'))
    /\ summary' = print_summary(loaded', extracted)
    /\ lpc' = "idle"
    /\ UNCHANGED <<tstore, production, hwm, lent, appended, load_results, loadRuns,
                   failedBefore, fresh, extracted>>
    /\ UNCHANGED <<extractVars, normVars, sortVars, pipeVars, pureVars, staging, lastUpsert, overwritten>>

NextLoad ==
    \/ AddTransformed
    \/ RunLoadPhase
    \/ LoadBatch
    \/ EntityDone
    \/ VerifyCounts

SpecLoad == Init /\ [][NextLoad]_vars

\* --------------------------------------- extract.py: the values of a row
\* the texts a cell of a source file may hold
CellTexts ==
    { <<>>, <<"n", "a", "n">>, <<"N", "a", "N">>, <<"N", "A", "N">>,
      <<"N", "o", "n", "e">>, <<"n", "o", "n", "e">>, <<"N", "O", "N", "E">>,
      <<"n", "u", "l", "l">>, <<"N", "U", "L", "L">>, <<"N", "u", "l", "l">>,
      <<"n", "/", "a">>, <<"N", "/", "A">>,
      <<"<", "N", "A", ">">>, <<"<", "n", "a", ">">>,
      <<"N", "a", "T">>, <<"n", "a", "t">>,
      <<"n", "o">>, <<"0">>, <<"0", "7">>, <<" ", "g", "o", "a">>, Pune, Goa }

CellRows == { [branch_id |-> k, city |-> v] : k \in {B1, B2, A1}, v \in CellTexts }

\* a row of a source file is read
ReadRow ==
    /\ cpc = "idle"
    /\ cin' \in CellRows
    /\ cpc' = "read"
    /\ UNCHANGED cout
    /\ UNCHANGED <<extractVars, normVars, sortVars, pipeVars, loadVars, staging, lastUpsert,
                   overwritten, dateVars, rowVars>>

\* _process_dataframe_raw on the one-row frame
ProcessRow ==
    /\ cpc = "read"
    /\ \E p \in SortOrders(<<cin>>, PK("branches")) :
         cout' = _process_dataframe_raw(<<cin>>, p)[1]
    /\ cpc' = "done"
    /\ UNCHANGED cin
    /\ UNCHANGED <<extractVars, normVars, sortVars, pipeVars, loadVars, staging, lastUpsert,
                   overwritten, dateVars, rowVars>>

NextCell ==
    \/ ReadRow
    \/ ProcessRow

SpecCell == Init /\ [][NextCell]_vars

\* ------------------------------------ transform.py and load.py: the dates
MkDate(y, m, d) == [year |-> y, month |-> m, day |-> d]

IsLeap(y) == (y % 4 = 0 /\ y % 100 # 0) \/ y % 400 = 0

DaysInMonth(y, m) ==
    IF m = 2 THEN (IF IsLeap(y) THEN 29 ELSE 28)
    ELSE IF m \in {4, 6, 9, 11} THEN 30 ELSE 31

\* datetime.date(y, m, d) does not raise ValueError
ValidDate(y, m, d) == y >= 1 /\ m \in 1..12 /\ d >= 1 /\ d <= DaysInMonth(y, m)

\* a < b on dates
DateLess(a, b) ==
    \/ a.year < b.year
    \/ a.year = b.year /\ a.month < b.month
    \/ a.year = b.year /\ a.month = b.month /\ a.day < b.day

AllDigits(t) == t # <<>> /\ \A i \in DOMAIN t : IsDigit(t[i])

SepPos(s, seps) == {i \in DOMAIN s : s[i] \in seps}

\* the three groups of  ^(\d+)[seps](\d+)[seps](\d+)$ , or <<>> when the text
\* has not exactly two separators
DateParts(s, seps) ==
    IF Cardinality(SepPos(s, seps)) # 2 THEN <<>>
    ELSE LET p == CHOOSE i \in SepPos(s, seps) : \A j \in SepPos(s, seps) : i <= j
             q == CHOOSE i \in SepPos(s, seps) : \A j \in SepPos(s, seps) : j <= i
         IN  <<SubSeq(s, 1, p - 1), SubSeq(s, p + 1, q - 1), SubSeq(s, q + 1, Len(s))>>

\* re.match of the pattern whose groups have the lengths in l1, l2, l3
MatchDate(s, seps, l1, l2, l3) ==
    LET g == DateParts(s, seps)
    IN  /\ g # <<>>
        /\ AllDigits(g[1]) /\ Len(g[1]) \in l1
        /\ AllDigits(g[2]) /\ Len(g[2]) \in l2
        /\ AllDigits(g[3]) /\ Len(g[3]) \in l3

DateSeps == {"-", "/", "."}
VariantDateSeps == {"-", "/"}

MatchDMY4(s) == MatchDate(s, DateSeps, {1, 2}, {1, 2}, {4})
MatchYMD4(s) == MatchDate(s, DateSeps, {4}, {1, 2}, {1, 2})
MatchDMY2(s, seps) == MatchDate(s, seps, {1, 2}, {1, 2}, {2})

Group(s, k) == DigitsValue(DateParts(s, DateSeps)[k], 0)

\* the years a parser of the library may read a two-digit year as: the POSIX
\* rule of strptime (69-99 are 19yy, 00-68 are 20yy), or the rule of dateutil
\* (the year within 50 years of the current one)
TwoDigitYears(yy, cy) ==
    { IF yy <= 68 THEN 2000 + yy ELSE 1900 + yy,
      LET y == (cy \div 100) * 100 + yy
      IN  IF y >= cy + 50 THEN y - 100 ELSE IF y < cy - 50 THEN y + 100 ELSE y }

\* day a, month b when dayfirst, month a, day b otherwise; the other reading
\* when the preferred one is no date; NaT when neither is
DayMonthYear(a, b, y, dayfirst) ==
    LET d1 == IF dayfirst THEN a ELSE b
        m1 == IF dayfirst THEN b ELSE a
    IN  IF ValidDate(y, m1, d1) THEN MkDate(y, m1, d1)
        ELSE IF ValidDate(y, d1, m1) THEN MkDate(y, d1, m1)
        ELSE NullDate

\* pd.to_datetime(s, errors='coerce', dayfirst=...): the dates it may return
to_datetime(s, dayfirst, cy) ==
    IF MatchYMD4(s)
    THEN { IF ValidDate(Group(s, 1), Group(s, 2), Group(s, 3))
           THEN MkDate(Group(s, 1), Group(s, 2), Group(s, 3)) ELSE NullDate }
    ELSE IF MatchDMY4(s)
    THEN { DayMonthYear(Group(s, 1), Group(s, 2), Group(s, 3), dayfirst) }
    ELSE IF MatchDMY2(s, DateSeps)
    THEN { DayMonthYear(Group(s, 1), Group(s, 2), y, dayfirst) :
             y \in TwoDigitYears(Group(s, 3), cy) }
    ELSE { NullDate }

\* the texts safe_date takes for missing
DateNullTokens ==
    { <<>>, <<"N", "o", "n", "e">>, <<"N", "a", "N">>, <<"n", "a", "n">>,
      <<"N", "U", "L", "L">>, <<"n", "u", "l", "l">>, <<"N", "/", "A">>, <<"n", "/", "a">> }

\* load.py, safe_date: the century of a two-digit year, a fixed pivot at 49
year_4digit_fixed(year_2digit, cy) ==
    IF year_2digit <= 49 THEN 2000 + year_2digit ELSE 1900 + year_2digit

\* transform.py, safe_date: the century of a two-digit year, by comparison
\* with the two last digits of the current year
year_4digit(year_2digit, cy) ==
    IF year_2digit <= cy % 100 THEN 2000 + year_2digit ELSE 1900 + year_2digit

\* transform.py, safe_date(val): the values it may return, NullDate for None
safe_date(val, td) ==
    IF val = None \/ Strip(val) \in DateNullTokens THEN { NullDate }
    ELSE
    LET s == Strip(val)
        InRange(r) == r # NullDate /\ 1900 <= r.year /\ r.year <= td.year
        Fallback == { IF InRange(r) THEN r ELSE NullDate : r \in to_datetime(s, TRUE, td.year) }
        TwoDigit ==
            IF MatchDMY2(s, DateSeps)
            THEN LET a == Group(s, 1)
                     b == Group(s, 2)
                     swap == ~(a > 12 /\ b <= 12) /\ (b > 12 /\ a <= 12)
                     day == IF swap THEN b ELSE a
                     month == IF swap THEN a ELSE b
                     y4 == year_4digit(Group(s, 3), td.year)
                 IN  IF ValidDate(y4, month, day)
                     THEN (IF InRange(MkDate(y4, month, day))
                           THEN { MkDate(y4, month, day) } ELSE Fallback)
                     ELSE IF ValidDate(y4, month, 1)
                     THEN (IF InRange(MkDate(y4, month, 1))
                           THEN { MkDate(y4, month, 1) } ELSE Fallback)
                     ELSE Fallback
            ELSE Fallback
    IN  IF MatchDMY4(s) \/ MatchYMD4(s)
        THEN UNION { IF InRange(r) THEN {r} ELSE TwoDigit : r \in to_datetime(s, FALSE, td.year) }
        ELSE TwoDigit

\* load.py, safe_date(val): the values it may return, NullDate for NaT
variant_safe_date(val, td) ==
    IF val = None \/ Strip(val) \in DateNullTokens
       \/ Lower(Strip(val)) \in { <<"n", "a", "n">>, <<"n", "o", "n", "e">>, <<>>,
                                  <<"n", "/", "a">>, <<"n", "u", "l", "l">> }
    THEN { NullDate }
    ELSE
    LET s == Strip(val)
        InRange(r) == r # NullDate /\ td.year - 120 <= r.year /\ r.year <= td.year + 50
        TwoDigit ==
            IF MatchDMY2(s, VariantDateSeps)
            THEN LET day == Group(s, 1)
                     month == Group(s, 2)
                     y4 == year_4digit_fixed(Group(s, 3), td.year)
                 IN  IF month \in 1..12 /\ day \in 1..31 /\ ValidDate(y4, month, day)
                        /\ InRange(MkDate(y4, month, day))
                     THEN MkDate(y4, month, day) ELSE NullDate
            ELSE NullDate
    IN  { IF InRange(r) THEN r ELSE TwoDigit : r \in to_datetime(s, TRUE, td.year) }

Max(a, b) == IF a > b THEN a ELSE b

\* today.year - dob.year - ((today.month, today.day) < (dob.month, dob.day))
YearsBetween(dob, td) ==
    td.year - dob.year -
        (IF td.month < dob.month \/ (td.month = dob.month /\ td.day < dob.day) THEN 1 ELSE 0)

\* transform.py, calc_age
calc_age(dob, td) ==
    IF dob = NullDate \/ DateLess(td, dob) THEN 0
    ELSE Max(0, Min(YearsBetween(dob, td), 120))

\* load.py, calc_age
variant_calc_age(dob, td) ==
    IF dob = NullDate \/ DateLess(td, dob) THEN 0
    ELSE IF 0 <= YearsBetween(dob, td) /\ YearsBetween(dob, td) <= 120
         THEN YearsBetween(dob, td) ELSE 0

\* the values the rules are applied to
TwoDigits(n) == <<Digits[(n \div 10) + 1], Digits[(n % 10) + 1]>>
FourDigits(n) == TwoDigits(n \div 100) \o TwoDigits(n % 100)

DateTexts ==
    { TwoDigits(a) \o <<sep>> \o TwoDigits(b) \o <<sep>> \o TwoDigits(c) :
        a \in {1, 13, 15, 30, 31}, b \in {2, 12, 13}, c \in {24, 26, 30, 69}, sep \in {"/", "-"} }
    \cup
    { TwoDigits(a) \o <<sep>> \o TwoDigits(b) \o <<sep>> \o FourDigits(c) :
        a \in {1, 15, 30, 31}, b \in {2, 12, 13},
        c \in {1899, 1900, 1903, 2020, 2024, 2030}, sep \in {"/", "-"} }
    \cup
    { FourDigits(c) \o <<"-">> \o TwoDigits(b) \o <<"-">> \o TwoDigits(a) :
        a \in {15, 30}, b \in {2, 3}, c \in {1903, 2020, 2030} }
    \cup
    { None, <<>>, <<"n", "a", "n">>, <<"a", "b", "c">> }

Todays == { MkDate(2024, 6, 15), MkDate(2026, 11, 2) }

\* a value and the day of the call are chosen
DateInput ==
    /\ dpc = "idle"
    /\ today' \in Todays
    /\ dval' \in DateTexts
    /\ dpc' = "input"
    /\ UNCHANGED <<dres, dresV, age, ageV>>
    /\ UNCHANGED <<extractVars, normVars, sortVars, pipeVars, loadVars, staging, lastUpsert,
                   overwritten, cellVars, rowVars>>

\* safe_date of both normalizers on the value
SafeDate ==
    /\ dpc = "input"
    /\ dres' \in safe_date(dval, today)
    /\ dresV' \in variant_safe_date(dval, today)
    /\ dpc' = "parsed"
    /\ UNCHANGED <<today, dval, age, ageV>>
    /\ UNCHANGED <<extractVars, normVars, sortVars, pipeVars, loadVars, staging, lastUpsert,
                   overwritten, cellVars, rowVars>>

\* calc_age of both normalizers on the date
CalcAge ==
    /\ dpc = "parsed"
    /\ age' = calc_age(dres, today)
    /\ ageV' = variant_calc_age(dresV, today)
    /\ dpc' = "aged"
    /\ UNCHANGED <<today, dval, dres, dresV>>
    /\ UNCHANGED <<extractVars, normVars, sortVars, pipeVars, loadVars, staging, lastUpsert,
                   overwritten, cellVars, rowVars>>

NextDate ==
    \/ DateInput
    \/ SafeDate
    \/ CalcAge

SpecDate == Init /\ [][NextDate]_vars

\* ------------------- transform.py and load.py: loans and transactions rows
\* str.replace of the currency signs, the comma and the blank
RECURSIVE StripMoney(_)
StripMoney(s) ==
    IF s = <<>> THEN <<>>
    ELSE IF Head(s) \in {"$", ",", " "} THEN StripMoney(Tail(s))
    ELSE <<Head(s)>> \o StripMoney(Tail(s))

\* float(cleaned) raises ValueError
FloatRaises(c) ==
    ~(AllDigits(c) \/ (c # <<>> /\ Head(c) = "-" /\ AllDigits(Tail(c))))

FloatOf(c) ==
    IF Head(c) = "-" THEN 0 - DigitsValue(Tail(c), 0) ELSE DigitsValue(c, 0)

\* transform.py, safe_num(val, 0); str(None) is the text None
safe_num(val, default) ==
    LET cleaned == StripMoney(IF val = None THEN <<"N", "o", "n", "e">> ELSE val)
    IN  IF cleaned = <<>> \/ FloatRaises(cleaned) THEN default ELSE FloatOf(cleaned)

\* load.py, safe_num(val, 0)
variant_safe_num(val, default) ==
    IF val = None \/ Strip(val) \in DateNullTokens
       \/ Lower(Strip(val)) \in { <<"n", "a", "n">>, <<"n", "o", "n", "e">>, <<>>,
                                  <<"n", "/", "a">>, <<"n", "u", "l", "l">> }
    THEN default
    ELSE LET cleaned == StripMoney(val)
         IN  IF cleaned = <<>> \/ FloatRaises(cleaned) THEN default ELSE FloatOf(cleaned)

\* date.today() of the runs
RowsToday == MkDate(2024, 6, 15)

\* the date safe_date returns (the texts of the rows have four-digit years,
\* for which it has one outcome)
SafeDateOf(v) == CHOOSE r \in safe_date(v, RowsToday) : TRUE
VariantSafeDateOf(v) == CHOOSE r \in variant_safe_date(v, RowsToday) : TRUE

\* SELECT customer_id FROM transformed_customers: two customers are there
RowsValidCustomers == {1, 2}

\* the same keys as load.py holds them, as text
RowsValidCusts == { <<"1">>, <<"2">> }

\* transform.py, transform_loans / transform_transactions from the
\* renumbering on: the key is the position, customer_id is cast to int (which
\* raises on a text that is no integer), rows of unknown customers are
\* dropped, amount and date are cleaned
RowsRenumbered(d) == [i \in DOMAIN d |-> [d[i] EXCEPT !.id = i]]

RowsCast(d) == [i \in DOMAIN d |-> [d[i] EXCEPT !.customer_id = IntOf(d[i].customer_id)]]

RowsCleaned(d) ==
    [i \in DOMAIN d |->
        [d[i] EXCEPT !.amount = safe_num(d[i].amount, 0), !.date = SafeDateOf(d[i].date)]]

RowsTransform(d) ==
    RowsCleaned(SeqFilterKeys(RowsCast(RowsRenumbered(d)), "customer_id", RowsValidCustomers))

\* load.py, transform_loans / transform_transactions: customer_id and amount
\* (and, for transactions, the date) are cleaned, then rows of unknown
\* customers, rows whose amount is not positive and, for transactions, rows
\* without date are dropped; loans get their dates after the filters
RowsVariantCleaned(d) ==
    [i \in DOMAIN d |->
        [d[i] EXCEPT !.customer_id = safe_val(d[i].customer_id, NA, "plain"),
                     !.amount = variant_safe_num(d[i].amount, 0),
                     !.date = VariantSafeDateOf(d[i].date)]]

RowsVariantTransform(t, d) ==
    LET c == RowsVariantCleaned(d)
    IN  SelectIdx(c, 1, { i \in DOMAIN c :
                            /\ c[i].customer_id \in RowsValidCusts
                            /\ c[i].amount > 0
                            /\ (t = "transactions" => c[i].date # NullDate) })

\* the values of the staged rows
RowAmounts == { <<"1", "0", "0">>, <<"$", "1", ",", "5", "0", "0">>, <<"a", "b", "c">>,
                <<"-", "5">>, <<"0">>, None }

RowDates == { <<"1", "5", "/", "0", "3", "/", "2", "0", "2", "0">>,
              <<"3", "1", "/", "0", "2", "/", "2", "0", "2", "0">>,
              <<"s", "o", "o", "n">>, None }

RowCustomers == { <<"1">>, <<"2">>, <<"9">>, <<"x", "1">> }

\* the staged tables: the key of a row is its position
StagedRows ==
    { RowsRenumbered(d) :
        d \in UNION { [1..n -> [id : {0}, customer_id : RowCustomers, amount : RowAmounts,
                                date : RowDates]] : n \in 1..MaxStagedRows } }

\* the staging table of an entity holds some rows
StageRows ==
    /\ rpc = "idle"
    /\ rtable' \in {"loans", "transactions"}
    /\ rin' \in StagedRows
    /\ rpc' = "staged"
    /\ UNCHANGED <<rout, raborted, routV>>
    /\ UNCHANGED <<extractVars, normVars, sortVars, pipeVars, loadVars, staging, lastUpsert,
                   overwritten, dateVars, cellVars>>

\* the entity's function of both normalizers on the staged rows, the
\* transformed table being empty
TransformRows ==
    /\ rpc = "staged"
    /\ raborted' = AstypeIntRaises(rin)
    /\ rout' = IF AstypeIntRaises(rin) THEN <<>> ELSE RowsTransform(rin)
    /\ routV' = RowsVariantTransform(rtable, rin)
    /\ rpc' = "done"
    /\ UNCHANGED <<rtable, rin>>
    /\ UNCHANGED <<extractVars, normVars, sortVars, pipeVars, loadVars, staging, lastUpsert,
                   overwritten, dateVars, cellVars>>

NextRows ==
    \/ StageRows
    \/ TransformRows

SpecRows == Init /\ [][NextRows]_vars

\* --------------------------------------------- properties of the normalizer
Children == {"loans", "transactions"}

\* the decimal text of a number below 100
IntToText(n) ==
    IF n < 10 THEN <<Digits[n + 1]>> ELSE <<Digits[(n \div 10) + 1], Digits[(n % 10) + 1]>>

\* a transformed key as text
KeyText(t, v) == IF t = "branches" THEN v ELSE IntToText(v)

\* a transformed table without the surrogate display_id
Business(rows) ==
    [i \in DOMAIN rows |-> [c \in DOMAIN rows[i] \ {"display_id"} |-> rows[i][c]]]

\* C5: a child row whose foreign key is not a primary key of the transformed
\* parent table is not written, and the statistics of the stage count it as
\* dropped.
C5_DroppedAndCounted ==
    \A t \in Children :
        /\ \A i \in DOMAIN transformed[t] :
               transformed[t][i].customer_id \in KeysOf(transformed["customers"], "customer_id")
        /\ stats[t].skipped = riDropped[t]

C7_LaterCityWins ==
    (tpc = "idle" /\ cleanRuns >= 1 /\ outcome = "ok") =>
        \A k \in overwritten["branches"] :
            LET rows == {i \in DOMAIN transformed["branches"] :
                             transformed["branches"][i].branch_id = safe_val(k, NA, "plain")}
            IN  /\ Cardinality(rows) = 1
                /\ \A i \in rows :
                       transformed["branches"][i].city =
                           safe_val(lastUpsert["branches"][k].city, NA, "title")

\* C8: after the first normalizer run the number of transformed loans is the
\* number of staged loans whose customer id is the business key of a staged
\* customer.
C8_LoanCountByBusinessKey ==
    (tpc = "idle" /\ runs = 1 /\ cleanRuns >= 1 /\ outcome = "ok") =>
        Len(transformed["loans"]) =
            Cardinality({i \in DOMAIN staging["loans"] :
                             staging["loans"][i].customer_id
                                 \in KeysOf(staging["customers"], "customer_id")})

\* C9: every primary key of a transformed table is a business primary key of
\* the staging table, and the other fields of the row are the cleaned fields
\* of the staging row with that key.
C9_KeysAndFieldsFromStaging ==
    (tpc = "idle" /\ cleanRuns >= 1 /\ outcome = "ok") =>
        \A i \in DOMAIN transformed["customers"] :
            \E j \in DOMAIN staging["customers"] :
                /\ KeyText("customers", transformed["customers"][i].customer_id)
                       = safe_val(staging["customers"][j].customer_id, NA, "plain")
                /\ transformed["customers"][i].first_name
                       = safe_val(staging["customers"][j].first_name, NA, "title")

C11_StagedRowsArePresent ==
    (tpc = "idle" /\ cleanRuns >= 1 /\ outcome = "ok") =>
        /\ \A j \in DOMAIN staging["branches"] :
               \E i \in DOMAIN transformed["branches"] :
                   transformed["branches"][i].branch_id
                       = safe_val(staging["branches"][j].branch_id, NA, "plain")
        /\ \A j \in DOMAIN staging["customers"] :
               \E i \in DOMAIN transformed["customers"] :
                   transformed["customers"][i].first_name
                       = safe_val(staging["customers"][j].first_name, NA, "title")

\* C12: over any sequence of normalizer runs the display_id of the rows
\* inserted into a transformed table strictly increases with the order of
\* insertion, and no value is given to two insertions, in the same run or in
\* different runs.
C12_DisplayIdNeverReused ==
    \A t \in Tables : \A i, j \in DOMAIN insertions[t] :
        i < j => insertions[t][i] < insertions[t][j]

\* C19: when reading a source file fails, the call writes no ledger entry
\* for the file, adds nothing to the extraction counts, and lets the error
\* out to its caller; the file, having no new ledger entry, is processed
\* again by the next pass.
C19_ReadFailurePropagates ==
    [][ (xpc = "mark" /\ readError /\ xpc' = "file")
            => ( /\ etl_file_tracker' = etl_file_tracker
                 /\ totals' = totals
                 /\ result'.how = "raised" ) ]_vars

\* C13: two source files holding the same rows in different order on disk
\* give the same staging write sequence once sorted by numeric key, whatever
\* the keys are, keys with the same numeric sort key included.
C13_SameRowsSameWrites ==
    spc = "done" => writtenA = writtenB

\* C20: a duplicate-key conflict met by a write of the normalizer is caught
\* and is a no-op for the conflicting row: the run does not fail, and the
\* rows that do not conflict are written all the same (every staged branch
\* has its cleaned key in the transformed store when the run is over).
C20_ConflictIsNoOp ==
    (tpc = "idle" /\ conflict /\ ~runFaulty) =>
        /\ outcome = "ok"
        /\ \A j \in DOMAIN staging["branches"] :
               \E i \in DOMAIN transformed["branches"] :
                   transformed["branches"][i].branch_id =
                       safe_val(staging["branches"][j].branch_id, NA, "plain")

\* --------------------------------------------- properties of the pipeline
\* the events of a run in which every stage completes
FullLog ==
    [k \in 1..(2 * Len(Stages)) |->
        IF k % 2 = 1 THEN <<"start", Stages[(k + 1) \div 2]>> ELSE <<"end", Stages[k \div 2]>>]

RunFailed ==
    stageLog # <<>> /\ stageLog[Len(stageLog)][1] \in {"raise", "abort"}

\* C16: within one run of the pipeline the stages start in the order
\* extract, transform, load, verify, quality report, each one after the one
\* before it has ended; once a stage has raised no later stage starts; and a
\* run in which a stage raised ends with the failure signal (exit status 1 in
\* full mode, the job's result False in schedule mode), a run in which none
\* did with the success signal.
C16_StagesInOrder ==
    /\ Len(stageLog) <= Len(FullLog)
    /\ \A k \in DOMAIN stageLog :
           \/ stageLog[k] = FullLog[k]
           \/ /\ k = Len(stageLog)
              /\ stageLog[k][1] \in {"raise", "abort"}
              /\ FullLog[k] = <<"end", stageLog[k][2]>>
    /\ (mode = "full" /\ ppc = "exited") =>
           /\ RunFailed <=> exitCode = 1
           /\ ~RunFailed <=> (exitCode = 0 /\ stageLog = FullLog)
    /\ (mode = "schedule" /\ ppc \in {"loop", "exited"}) =>
           /\ RunFailed <=> jobResult = "false"
           /\ ~RunFailed <=> (jobResult = "true" /\ stageLog = FullLog)

C16_Witness ==
    /\ mode = "full"
    /\ ppc = "exited"
    /\ exitCode = 1
    /\ stageLog = << <<"start", "extract">>, <<"end", "extract">>,
                     <<"start", "transform">>, <<"end", "transform">>,
                     <<"start", "load">>, <<"raise", "load">> >>

\* C17: a trigger of the scheduler that comes due while a run is in work is
\* skipped, not queued: no run is ever started for such a trigger once the
\* run in work has ended.
C17_OverlappingTriggerSkipped ==
    ~firedLate

\* C18: when SIGINT or SIGTERM arrives while a stage of a run is in work,
\* that stage finishes (it is not cut short) and no later stage of the run
\* starts.
C18_InterruptStopsAtStage ==
    sigIn \in StageSet =>
        \A k \in DOMAIN stageLog :
            /\ stageLog[k][1] # "abort"
            /\ stageLog[k][1] = "start" => StagePos(stageLog[k][2]) <= StagePos(sigIn)

\* C23: when a stage fails in the middle of a run, the counts the quality
\* tracker has accumulated up to then are preserved and emitted in the
\* quality report of that run.
C23_CountsReportedOnFailure ==
    (stageLog # <<>> /\ stageLog[Len(stageLog)][1] = "raise" /\ recorded # {}) => reported

C24_LoadedIsThisRunsRows ==
    summary.kind # "none" =>
        /\ loaded = SumValues(appended, LoadEntitySet)
        /\ summary = IF extracted > 0
                     THEN [kind |-> "accuracy", loaded |-> SumValues(appended, LoadEntitySet),
                           extracted |-> extracted]
                     ELSE [kind |-> "up to date", loaded |-> 0, extracted |-> 0]

\* ------------------------------------------------ properties of the dates
\* the calendar dates (year, month, day) a text may be read as
Readings(s) ==
    IF MatchYMD4(s) THEN { <<Group(s, 1), Group(s, 2), Group(s, 3)>> }
    ELSE IF MatchDMY4(s)
    THEN { <<Group(s, 3), Group(s, 2), Group(s, 1)>>, <<Group(s, 3), Group(s, 1), Group(s, 2)>> }
    ELSE IF MatchDMY2(s, DateSeps)
    THEN { <<c + Group(s, 3), Group(s, 2), Group(s, 1)>> : c \in {1900, 2000} }
         \cup { <<c + Group(s, 3), Group(s, 1), Group(s, 2)>> : c \in {1900, 2000} }
    ELSE {}

InputIsDate(val) ==
    val # None /\ \E r \in Readings(Strip(val)) : ValidDate(r[1], r[2], r[3])

DateRule(res) ==
    res # NullDate =>
        /\ InputIsDate(dval)
        /\ today.year - 120 <= res.year
        /\ res.year <= today.year + 50

\* C26: safe_date returns a date only for a value that is a valid calendar
\* date in an accepted form and whose year lies in
\* [current_year - 120, current_year + 50]; for every other value (day 30 of
\* February, a year out of the range) it returns the null marker.
C26_DateValidAndInRange ==
    dpc \in {"parsed", "aged"} => DateRule(dres) /\ DateRule(dresV)

CenturyRule(res) ==
    /\ (MatchDMY2(Strip(dval), DateSeps) /\ res # NullDate) =>
           res.year = (IF Group(Strip(dval), 3) <= today.year % 100
                       THEN 2000 + Group(Strip(dval), 3) ELSE 1900 + Group(Strip(dval), 3))
    /\ (today.year = 2024 /\ dval = <<"3", "1", "/", "1", "2", "/", "6", "9">>) =>
           res = MkDate(1969, 12, 31)

\* C27: for a date written with a two-digit year safe_date infers the
\* century by comparison with the two last digits of the current year: a
\* year not above them gives 20yy, any other 19yy; with current year 2024
\* the text 31/12/69 gives 1969-12-31.
C27_SlidingWindowCentury ==
    (dval # None /\ dpc \in {"parsed", "aged"}) => CenturyRule(dres) /\ CenturyRule(dresV)

AgeRule(dob) ==
    IF dob = NullDate \/ DateLess(today, dob) THEN 0
    ELSE IF YearsBetween(dob, today) < 0 \/ YearsBetween(dob, today) > 120 THEN 0
    ELSE YearsBetween(dob, today)

\* C28: calc_age returns the whole years between the birth date and today
\* (the difference of the years, less one when the birthday of this year is
\* still to come), and 0 when the birth date is null or in the future or the
\* age so computed lies outside [0, 120].
C28_AgeWholeYearsOrZero ==
    dpc = "aged" => age = AgeRule(dres) /\ ageV = AgeRule(dresV)

\* -------------------------------------------- properties of the row values
\* the tokens of the null rule, in lower case
NullRuleTokens ==
    { <<>>, <<"n", "o", "n", "e">>, <<"n", "a", "n">>, <<"n", "u", "l", "l">>,
      <<"n", "/", "a">>, <<"<", "n", "a", ">">> }

\* C29: every value other than the key that is the empty text or one of the
\* tokens none, nan, null, n/a, <NA>, in any letter case, is staged as the
\* null marker; every other value is staged as the text it was, unmodified.
C29_NullTokensAnyCase ==
    cpc = "done" =>
        cout.city = (IF Lower(cin.city) \in NullRuleTokens THEN None ELSE cin.city)

\* ------------------------------------- properties of the cleaning of rows
\* C21: one malformed value in a staged row (an amount that is no number, a
\* date that cannot be parsed, a customer id that is no integer) never
\* aborts the normalization of the entity: the value becomes its default or
\* the null marker, and every other row of the entity is still transformed.
C21_MalformedValueNeverAborts ==
    rpc = "done" =>
        /\ ~raborted
        /\ \A i \in DOMAIN rin :
               (IsIntText(rin[i].customer_id) /\ IntOf(rin[i].customer_id) \in RowsValidCustomers)
                   => \E k \in DOMAIN rout : rout[k].id = i

\* C25: after a run of the normalizer no loan and no transaction in the
\* transformed store has an amount that is not positive, and none has a
\* required date (start date of the loan, date of the transaction) that
\* could not be parsed.
C25_OnlyValidBusinessRows ==
    rpc = "done" =>
        /\ \A k \in DOMAIN rout : rout[k].amount > 0 /\ rout[k].date # NullDate
        /\ \A k \in DOMAIN routV : routV[k].amount > 0 /\ routV[k].date # NullDate

\* ------------------------------------- properties of mismatching columns
\* C22: a source file whose column set differs from the schema of its entity
\* causes no staging write and no ledger entry, and the pass goes on with the
\* remaining files of the entity.
C22_MismatchedFileSkipped ==
    [][ /\ (xpc = "process" /\ xpc' # "process" /\ ~readError' /\ WrongColumns(files[csv_file]))
               => ( /\ xpc' = "mark"
                    /\ staging' = staging
                    /\ etl_file_tracker' = etl_file_tracker )
        /\ (xpc = "mark" /\ xpc' = "file" /\ ~readError /\ WrongColumns(parsedContent))
               => ( /\ staging' = staging
                    /\ etl_file_tracker' = etl_file_tracker
                    /\ todo' = Tail(todo) ) ]_vars

\* the first file of the pass had mismatching columns and has returned; the
\* second file, not empty, is the next of the pass
C22_Witness ==
    /\ xpc = "file"
    /\ result = [file |-> "branches.csv", rows |-> <<0, 0, 0>>, how |-> "processed"]
    /\ WrongColumns(parsedContent)
    /\ "branches.csv" \notin DOMAIN etl_file_tracker
    /\ staging["branches"] = <<>>
    /\ todo = <<"branches_2.csv">>
    /\ files["branches_2.csv"] # <<>>

\* ---------------------------------- properties of the staged values of a key
\* the files of the entity that hold the key in a row the schema accepts
Holders(k) ==
    { j \in DOMAIN SortedFiles : k \in ValidKeys(files[SortedFiles[j]]) }

\* the rows a file holds for the key, as they are staged
StagedForms(content, k) ==
    { [c \in DOMAIN content[i] |-> RawValue(content[i][c])] :
        i \in { n \in DOMAIN content : RawValue(content[n].branch_id) = k } }

\* C30: after any sequence of extraction passes the staged row of a key
\* depends only on what the source files of the entity hold now: when
\* several files hold the key, the staged values are those of the last such
\* file in sorted order, whichever files a pass skipped as unchanged.  (Stated
\* for the moments between passes at which every file has been through a call
\* since it was last modified and no batch was ever rolled back.)
C30_LastFileInOrderWins ==
    (xpc = "idle" /\ ~batchFailed /\ \A f \in FileNames : cleanPasses[f] >= 1) =>
        \A i \in DOMAIN staging["branches"] :
            LET k == staging["branches"][i].branch_id
                last == CHOOSE j \in Holders(k) : \A h \in Holders(k) : h <= j
            IN  Cardinality(Holders(k)) >= 2 =>
                    staging["branches"][i] \in StagedForms(files[SortedFiles[last]], k)

====
